---- MODULE Spec2Model ----
(***************************************************************************)
(* The processor Lambda of the cross-account pipeline: the SQS batch       *)
(* handler, the per-record read/transform/write routine and the cache of   *)
(* the credentials obtained by assuming the Core account's S3 access role. *)
(*                                                                         *)
(* Times are epoch milliseconds.  A value that may be null/undefined is a  *)
(* sequence of length 0 (absent, falsy) or 1 (present).                    *)
(***************************************************************************)
EXTENDS Integers, Sequences, FiniteSets, TLC

\* ------------------------------------------------------------------ bounds
MaxTicks == 2
MaxStsCalls == 2
MaxRecords == 2
NumCallers == 2

\* --------------------------------------------------------- program constants
bufferMs == 5 * 60 * 1000
DurationSeconds == 3600
PREFIX == "dev"
INPUT_BUCKET_NAME == "input-bucket"
OUTPUT_BUCKET_NAME == "output-bucket"

\* The prefix-based processor (lambda/processor.ts): one bucket, an input and
\* an output prefix, and an optional deployment prefix.
BUCKET_NAME == "core-bucket"
INPUT_PREFIX == "input/"
OUTPUT_PREFIX == "output/"
DeploymentPrefixes == {"john"}

\* The Lambda function's timeout (stack-rps.ts line 194), in milliseconds.
LambdaTimeoutMs == 60 * 1000

\* The processor queue's redrive policy and the Lambda's SQS event source
\* (stack-rps.ts lines 89-92 and 215-219).
maxReceiveCount == 3
batchSize == 10
reportBatchItemFailures == TRUE

\* The clock moves in steps of one refresh buffer.
TickMs == bufferMs
MaxTime == MaxTicks * TickMs

\* ---------------------------------------------------------------- values
None == << >>
Some(v) == << v >>

\* The lifetimes the role-assumption authority may give a session, counted
\* from the moment it answers: the requested DurationSeconds, and shorter
\* ones (less than the buffer, three buffers).
RequestedLifetime == DurationSeconds * 1000
ExpiryOffsets == {bufferMs \div 2, 3 * bufferMs, RequestedLifetime}

CredentialFields == {"AccessKeyId", "SecretAccessKey", "SessionToken", "Expiration"}

\* The Credentials object of the n-th AssumeRole response, expiring at time t,
\* with the fields of `missing` undefined.  A key field carries the number of
\* the response that issued it; Expiration carries it beside the time.
Credentials(n, t, missing) ==
  [ AccessKeyId     |-> IF "AccessKeyId" \in missing THEN None ELSE Some(n),
    SecretAccessKey |-> IF "SecretAccessKey" \in missing THEN None ELSE Some(n),
    SessionToken    |-> IF "SessionToken" \in missing THEN None ELSE Some(n),
    Expiration      |-> IF "Expiration" \in missing THEN None
                        ELSE Some([rid |-> n, time |-> t]) ]

\* What stsClient.send(assumeRoleCommand) can give for the n-th call answered
\* at time t: a rejection, a response without Credentials, complete
\* Credentials of any lifetime, or Credentials that lack one field.
AssumeRoleOutcomes(n, t) ==
  { [kind |-> "throw", Credentials |-> None],
    [kind |-> "ok", Credentials |-> None] }
  \cup { [kind |-> "ok", Credentials |-> Some(Credentials(n, t + d, {}))] :
           d \in ExpiryOffsets }
  \cup { [kind |-> "ok", Credentials |-> Some(Credentials(n, t + RequestedLifetime, {f}))] :
           f \in CredentialFields }

\* Lines 64-70: the command is built with RoleArn: CORE_S3_ACCESS_ROLE_ARN and
\* sent, whatever the variable holds.  STS rejects a request without the
\* required RoleArn.
SendAssumeRole(roleArn, n, t) ==
  IF roleArn = None
  THEN { [kind |-> "throw", Credentials |-> None] }
  ELSE AssumeRoleOutcomes(n, t)

\* ---------------------------------------------------------------- strings
\* String.prototype.startsWith, substring(start), includes and replace with
\* a string pattern (the first occurrence only).
StartsWith(str, p) ==
  Len(p) <= Len(str) /\ SubSeq(str, 1, Len(p)) = p

Substring(str, start) ==
  IF start >= Len(str) THEN "" ELSE SubSeq(str, start + 1, Len(str))

Includes(str, p) ==
  \E i \in 1..(Len(str) - Len(p) + 1) : SubSeq(str, i, i + Len(p) - 1) = p

Replace(str, p, r) ==
  IF ~Includes(str, p)
  THEN str
  ELSE LET i == CHOOSE k \in 1..(Len(str) - Len(p) + 1) :
                  /\ SubSeq(str, k, k + Len(p) - 1) = p
                  /\ \A j \in 1..(k - 1) : SubSeq(str, j, j + Len(p) - 1) # p
       IN SubSeq(str, 1, i - 1) \o r \o SubSeq(str, i + Len(p), Len(str))

\* ------------------------------------------------------------ the two lambdas
\* The role the two-bucket processor is told to assume.
S3AccessRoleArn == "arn:aws:iam::core:role/dev-s3-access-role"

\* The deployed processor and its environment: the two-bucket one that
\* assumes the Core role, with process.env.CORE_S3_ACCESS_ROLE_ARN set or not
\* (part_000 line 10 reads it with `!`, which checks nothing), or the
\* prefix-based one, which reads no such variable, with or without
\* CDK_DEPLOYMENT_PREFIX and with the INPUT_PREFIX and OUTPUT_PREFIX it reads
\* (processor.ts lines 133-134).
Configs ==
  { [processor |-> "assumeRole", CDK_DEPLOYMENT_PREFIX |-> None,
     CORE_S3_ACCESS_ROLE_ARN |-> arn,
     INPUT_PREFIX |-> INPUT_PREFIX, OUTPUT_PREFIX |-> OUTPUT_PREFIX] :
       arn \in {None, Some(S3AccessRoleArn)} }
  \cup { [processor |-> "prefix", CDK_DEPLOYMENT_PREFIX |-> d,
          CORE_S3_ACCESS_ROLE_ARN |-> None,
          INPUT_PREFIX |-> INPUT_PREFIX, OUTPUT_PREFIX |-> OUTPUT_PREFIX] :
           d \in {None} \cup {Some(x) : x \in DeploymentPrefixes} }

\* processRecord's early returns.  The two-bucket processor has none.  The
\* prefix-based one (processor.ts lines 191-209) returns, with a deployment
\* prefix, for a key outside INPUT_PREFIX<deployment>/ and, without one, for
\* a key whose part after the first INPUT_PREFIX.length characters has a '/'.
ShouldSkip(cfg, sourceKey) ==
  IF cfg.processor = "assumeRole"
  THEN FALSE
  ELSE IF cfg.CDK_DEPLOYMENT_PREFIX # None
       THEN ~StartsWith(sourceKey, cfg.INPUT_PREFIX \o cfg.CDK_DEPLOYMENT_PREFIX[1] \o "/")
       ELSE Includes(Substring(sourceKey, Len(cfg.INPUT_PREFIX)), "/")

\* A variant that writes to the source key in every configuration.
OutputKeySameKey(cfg, sourceKey) == sourceKey

\* The key written: the source key itself (part_000 line 148), or the source
\* key with the input path replaced by the output path (processor.ts
\* lines 234-244).
OutputKey(cfg, sourceKey) ==
  IF cfg.processor = "assumeRole"
  THEN sourceKey
  ELSE IF cfg.CDK_DEPLOYMENT_PREFIX # None
       THEN Replace(sourceKey,
                    cfg.INPUT_PREFIX \o cfg.CDK_DEPLOYMENT_PREFIX[1] \o "/",
                    cfg.OUTPUT_PREFIX \o cfg.CDK_DEPLOYMENT_PREFIX[1] \o "/")
       ELSE Replace(sourceKey, cfg.INPUT_PREFIX, cfg.OUTPUT_PREFIX)

\* The buckets of GetObjectCommand and PutObjectCommand.
ReadBucket(cfg) ==
  IF cfg.processor = "assumeRole" THEN INPUT_BUCKET_NAME ELSE BUCKET_NAME
WriteBucket(cfg) ==
  IF cfg.processor = "assumeRole" THEN OUTPUT_BUCKET_NAME ELSE BUCKET_NAME

\* A variant that reads from the bucket the event names.
GetObjectCommandOfEventBucket(cfg, bucket, sourceKey) ==
  [Bucket |-> bucket[1], Key |-> sourceKey]

\* GetObjectCommand of lines 128-131 (processor.ts lines 214-217); `bucket` is
\* the event's detail.bucket, which is in scope and used in the log only.
GetObjectCommand(cfg, bucket, sourceKey) ==
  [Bucket |-> ReadBucket(cfg), Key |-> sourceKey]

\* The credentials of `new S3Client({})`: the Lambda's own role (issuer 0).
DefaultCredentials ==
  [ accessKeyId |-> Some(0), secretAccessKey |-> Some(0), sessionToken |-> Some(0) ]

\* ------------------------------------------------------------- the batch
\* Object keys the events name: any key for the two-bucket processor; for the
\* prefix-based one a key in the input root, one in a deployment's
\* subdirectory and one outside the input prefix.
TwoBucketKeys == {"a.txt"}
PrefixKeys == {"input/a.txt", "input/john/a.txt", "other/a.txt"}

\* What JSON.parse(record.body) and the destructuring of .detail meet: a body
\* that is no JSON, a JSON value without detail (or whose detail has no
\* object), a JSON value whose detail.object has no key, or an EventBridge
\* event.  The events name the bucket the rule matches on in
\* detail.bucket.name; those for otherKeys are also sent with the name of a
\* bucket that no processor is configured with.
OTHER_BUCKET_NAME == "other-bucket"

Bodies(keys, bucket, otherKeys) ==
  { [kind |-> k, key |-> None, bucket |-> None] :
      k \in {"notjson", "nodetail", "nokey"} }
  \cup { [kind |-> "event", key |-> Some(k), bucket |-> Some(bucket)] : k \in keys }
  \cup { [kind |-> "event", key |-> Some(k), bucket |-> Some(OTHER_BUCKET_NAME)] :
           k \in otherKeys }

\* A variant of lines 118-123 that reads the key with optional chaining
\* (`eventBridgeEvent.detail?.object?.key`) and goes on with the string
\* "undefined" where the structure is missing.
ParseBodyOptionalChaining(body) ==
  IF body.kind = "notjson"
  THEN [ threw |-> TRUE, sourceKey |-> None ]
  ELSE IF body.kind = "event"
       THEN [ threw |-> FALSE, sourceKey |-> body.key ]
       ELSE [ threw |-> FALSE, sourceKey |-> Some("undefined") ]

\* Lines 118-123 (processor.ts lines 184-189): JSON.parse throws a
\* SyntaxError on a body that is no JSON; destructuring an undefined detail,
\* or reading .key of an undefined object, throws a TypeError; a
\* detail.object without key gives sourceKey = undefined.
ParseBody(body) ==
  IF body.kind \in {"notjson", "nodetail"}
  THEN [ threw |-> TRUE, sourceKey |-> None ]
  ELSE [ threw |-> FALSE, sourceKey |-> body.key ]

MessageIds == << "m1", "m2", "m3", "m4" >>

\* The events the rules deliver name the bucket the rules match on.
TwoBucketBodies == Bodies(TwoBucketKeys, INPUT_BUCKET_NAME, {})
PrefixBodies == Bodies(PrefixKeys, BUCKET_NAME, {})

\* Messages sent to the queue by anyone allowed to: events that name any
\* bucket.
AnyBucketBodies(cfg) ==
  IF cfg.processor = "assumeRole"
  THEN Bodies(TwoBucketKeys, INPUT_BUCKET_NAME, TwoBucketKeys)
  ELSE Bodies(PrefixKeys, BUCKET_NAME, PrefixKeys)

\* An SQSEvent's Records: 1..MaxRecords records with distinct messageIds.  The
\* handler reads the body of a record when its loop reaches the record, and
\* the body of a message is drawn when it is first read; until then it stands
\* as not yet read.
NotYetRead == [kind |-> "unread", key |-> None, bucket |-> None]

\* The messages that come to the processor queue.
QueueMessageIds == {"m1", "m2"}

Records ==
  { [i \in 1..n |-> [messageId |-> MessageIds[i], body |-> NotYetRead]] :
      n \in 1..MaxRecords }

\* The object contents a read can deliver, as bytes: the zero-length one, and
\* an "e" with an acute accent in UTF-8 followed by a byte that is no UTF-8.
Contents == { << >>, << 195, 169, 255 >> }

\* Buffer.concat(chunks).toString('utf-8') of streamToString (line 181): the
\* bytes decoded into code points; a byte that starts no well-formed sequence
\* becomes U+FFFD.  (Overlong forms and surrogates are not told apart.)
RECURSIVE Utf8Decode(_)
Utf8Decode(b) ==
  IF b = << >>
  THEN << >>
  ELSE LET IsCont(i) == i <= Len(b) /\ b[i] >= 128 /\ b[i] <= 191
           From(i) == SubSeq(b, i, Len(b))
       IN IF b[1] < 128
          THEN << b[1] >> \o Utf8Decode(From(2))
          ELSE IF b[1] >= 194 /\ b[1] <= 223 /\ IsCont(2)
          THEN << (b[1] - 192) * 64 + (b[2] - 128) >> \o Utf8Decode(From(3))
          ELSE IF b[1] >= 224 /\ b[1] <= 239 /\ IsCont(2) /\ IsCont(3)
          THEN << (b[1] - 224) * 4096 + (b[2] - 128) * 64 + (b[3] - 128) >>
               \o Utf8Decode(From(4))
          ELSE IF b[1] >= 240 /\ b[1] <= 244 /\ IsCont(2) /\ IsCont(3) /\ IsCont(4)
          THEN << (b[1] - 240) * 262144 + (b[2] - 128) * 4096
                  + (b[3] - 128) * 64 + (b[4] - 128) >> \o Utf8Decode(From(5))
          ELSE << 65533 >> \o Utf8Decode(From(2))

\* The bytes the SDK sends for a string Body: its code points in UTF-8.
RECURSIVE Utf8Encode(_)
Utf8Encode(str) ==
  IF str = << >>
  THEN << >>
  ELSE LET c == str[1] IN
       ( IF c < 128
         THEN << c >>
         ELSE IF c < 2048
         THEN << 192 + (c \div 64), 128 + (c % 64) >>
         ELSE IF c < 65536
         THEN << 224 + (c \div 4096), 128 + ((c \div 64) % 64), 128 + (c % 64) >>
         ELSE << 240 + (c \div 262144), 128 + ((c \div 4096) % 64),
                 128 + ((c \div 64) % 64), 128 + (c % 64) >> )
       \o Utf8Encode(Tail(str))

\* Date.prototype.toISOString for a time of the first day of the epoch.
TwoDigits(n) ==
  SubSeq("0123456789", (n \div 10) + 1, (n \div 10) + 1)
  \o SubSeq("0123456789", (n % 10) + 1, (n % 10) + 1)

ToISOString(t) ==
  "1970-01-01T" \o TwoDigits((t \div 3600000) % 24) \o ":"
  \o TwoDigits((t \div 60000) % 60) \o ":" \o TwoDigits((t \div 1000) % 60)
  \o "." \o SubSeq("0123456789", ((t \div 100) % 10) + 1, ((t \div 100) % 10) + 1)
  \o TwoDigits(t % 100) \o "Z"

\* A variant that builds the header only and drops what was read.
processFileContentHeaderOnly(content, sourceKey, t) ==
  [header |-> "# Processed by " \o PREFIX \o " at " \o ToISOString(t)
                \o "\n# Source: " \o sourceKey \o "\n\n",
   content |-> << >>]

\* processFileContent (lines 167-173) called at time t: the header, then the
\* content.  The string is kept in its two parts: the header as text, the
\* content as code points.
processFileContent(content, sourceKey, t) ==
  [ header  |-> "# Processed by " \o PREFIX \o " at " \o ToISOString(t)
                \o "\n# Source: " \o sourceKey \o "\n\n",
    content |-> content ]

\* A variant of the command of lines 150-160 that writes only where no object
\* exists yet (IfNoneMatch: '*').
PutObjectCommandIfNoneMatch(cfg, sourceKey, processedContent, t) ==
  [ Bucket |-> WriteBucket(cfg),
    Key |-> OutputKey(cfg, sourceKey),
    Body |-> processedContent,
    IfNoneMatch |-> Some("*"),
    Metadata |-> [ sourceKey |-> sourceKey,
                   processedBy |-> IF cfg.CDK_DEPLOYMENT_PREFIX # None
                                   THEN PREFIX \o "-" \o cfg.CDK_DEPLOYMENT_PREFIX[1]
                                   ELSE PREFIX,
                   processedAt |-> ToISOString(t) ] ]

\* Lines 147-160 (processor.ts lines 233-256): the PutObjectCommand built at
\* time t.  It carries no precondition (no IfNoneMatch).
PutObjectCommand(cfg, sourceKey, processedContent, t) ==
  [ Bucket |-> WriteBucket(cfg),
    Key |-> OutputKey(cfg, sourceKey),
    Body |-> processedContent,
    IfNoneMatch |-> None,
    Metadata |-> [ sourceKey |-> sourceKey,
                   processedBy |-> IF cfg.CDK_DEPLOYMENT_PREFIX # None
                                   THEN PREFIX \o "-" \o cfg.CDK_DEPLOYMENT_PREFIX[1]
                                   ELSE PREFIX,
                   processedAt |-> ToISOString(t) ] ]

\* The object S3 holds after the command of record i succeeded: the header
\* text and the content as the bytes sent.
StoredObject(i, command) ==
  [ idx |-> i, Bucket |-> command.Bucket, Key |-> command.Key,
    header |-> command.Body.header,
    content |-> Utf8Encode(command.Body.content),
    Metadata |-> command.Metadata ]

\* What s3Client.send(putObjectCommand) can give when the object at the
\* command's location exists or not: S3 stores the object, replacing an
\* existing one, or the send rejects; a command with IfNoneMatch is refused
\* where an object exists.
PutObjectOutcomes(command, exists) ==
  IF command.IfNoneMatch # None /\ exists
  THEN { "PreconditionFailed" }
  ELSE { "ok", "fault" }

\* What s3Client.send(getObjectCommand) and streamToString can give: a
\* rejection (no such key, access denied, transport fault), a response
\* without Body, a body stream that errors, or the content.
GetObjectOutcomes ==
  { [kind |-> k, content |-> << >>] :
      k \in {"NoSuchKey", "AccessDenied", "ReadFault", "NoBody", "StreamError"} }
  \cup { [kind |-> "ok", content |-> c] : c \in Contents }

\* --------------------------------------------------------------- the stacks
\* String.prototype.trim and toLowerCase, and /^\d{12}$/.test.
WhiteSpace == {" ", "\t", "\n"}

RECURSIVE TrimStart(_)
TrimStart(str) ==
  IF Len(str) > 0 /\ SubSeq(str, 1, 1) \in WhiteSpace
  THEN TrimStart(SubSeq(str, 2, Len(str)))
  ELSE str

RECURSIVE TrimEnd(_)
TrimEnd(str) ==
  IF Len(str) > 0 /\ SubSeq(str, Len(str), Len(str)) \in WhiteSpace
  THEN TrimEnd(SubSeq(str, 1, Len(str) - 1))
  ELSE str

Trim(str) == TrimEnd(TrimStart(str))

UpperCaseLetters == "ABCDEFGHIJKLMNOPQRSTUVWXYZ"
LowerCaseLetters == "abcdefghijklmnopqrstuvwxyz"

RECURSIVE ToLowerCase(_)
ToLowerCase(str) ==
  IF Len(str) = 0
  THEN ""
  ELSE LET c == SubSeq(str, 1, 1)
           up == {i \in 1..Len(UpperCaseLetters) : SubSeq(UpperCaseLetters, i, i) = c}
       IN (IF up = {} THEN c
           ELSE LET i == CHOOSE k \in up : TRUE IN SubSeq(LowerCaseLetters, i, i))
          \o ToLowerCase(SubSeq(str, 2, Len(str)))

Digits == {"0", "1", "2", "3", "4", "5", "6", "7", "8", "9"}

TestTwelveDigits(str) ==
  Len(str) = 12 /\ \A i \in 1..Len(str) : SubSeq(str, i, i) \in Digits

\* The same test without the trim.
MissingOrBlankTrimless(str) == Len(str) = 0

\* `!x || x.trim().length === 0` for a string prop x.
MissingOrBlank(str) == Len(str) = 0 \/ Len(Trim(str)) = 0

\* The props of the two stacks as the app passes them: one prefix, one
\* region and the two account ids serve both stacks; each stack's own
\* account (env.account) is the other one's peer account.
MainProps ==
  [prefix |-> "dev", region |-> "eu-west-1",
   accountCoreId |-> "111111111111", accountRpsId |-> "222222222222",
   stackCoreInputBucketName |-> "dev-core-input-bucket-111111111111-eu-west-1",
   stackCoreOutputBucketName |-> "dev-core-output-bucket-111111111111-eu-west-1",
   deploymentPrefix |-> None, coreS3AccessRoleArn |-> None,
   existingEventBusName |-> None]

StackProps ==
  [prefix : {"", " ", "dev", "Dev", "prod"},
   region : {"", " ", "eu-west-1"},
   accountCoreId : {"111111111111", "11111111111", "11111111111x"},
   accountRpsId : {"222222222222", "2222222222222", "invalid"},
   stackCoreInputBucketName : {"", " ", "in"},
   stackCoreOutputBucketName : {"", " ", "out"},
   deploymentPrefix : {None, Some(""), Some("john"), Some("a/b")},
   coreS3AccessRoleArn : {None, Some("arn:aws:iam::111111111111:role/custom-role")},
   existingEventBusName : {None, Some(""), Some("shared-dev-bus")}]

\* What a constructor call comes to: the Error thrown or none, the resources
\* defined in the stack by then, and what the later definitions are built of.
Thrown(message) ==
  [error |-> Some(message), resources |-> {}, role |-> None, environment |-> None,
   eventBus |-> None]

\* An event bus by the parts of its ARN.
EventBusArn(region, account, eventBusName) ==
  [region |-> region, account |-> account, eventBusName |-> eventBusName]

IsDev(prefix) == Includes(ToLowerCase(prefix), "dev")

RoleArn(account, roleName) == "arn:aws:iam::" \o account \o ":role/" \o roleName

\* new StackCore(app, id, {prefix, accountRpsId, region, env: {account: accountCoreId}})
StackCore(p) ==
  IF MissingOrBlank(p.prefix)
  THEN Thrown("StackCore: prefix is required and cannot be empty")
  ELSE IF ~TestTwelveDigits(p.accountRpsId)
  THEN Thrown("StackCore: accountRpsId must be a 12-digit AWS account ID")
  ELSE IF MissingOrBlank(p.region)
  THEN Thrown("StackCore: region is required and cannot be empty")
  ELSE LET roleName == p.prefix \o "-s3-access-role"
           lambdaRoleArn == RoleArn(p.accountRpsId, p.prefix \o "-processor-lambda-role")
           assumeRolePolicyDocument ==
             IF IsDev(p.prefix)
             THEN [Principal |-> "arn:aws:iam::" \o p.accountRpsId \o ":root",
                   StringLike |->
                     {lambdaRoleArn,
                      RoleArn(p.accountRpsId, p.prefix \o "-*-processor-lambda-role")}]
             ELSE [Principal |-> lambdaRoleArn, StringLike |-> {}]
       IN [error |-> None,
           resources |-> {"InputBucket", "OutputBucket", "S3AccessRole"},
           role |-> Some([roleName |-> roleName,
                          roleArn |-> RoleArn(p.accountCoreId, roleName),
                          assumeRolePolicyDocument |-> assumeRolePolicyDocument]),
           environment |-> None,
           eventBus |-> Some(EventBusArn(p.region, p.accountRpsId,
                                         p.prefix \o "-cross-account-bus"))]

\* new StackRps(app, id, {prefix, deploymentPrefix, accountCoreId, bucket names,
\* coreS3AccessRoleArn, region, env: {account: accountRpsId}})
StackRps(p) ==
  LET s3AccessRoleArn ==
        IF p.coreS3AccessRoleArn # None /\ p.coreS3AccessRoleArn[1] # ""
        THEN p.coreS3AccessRoleArn[1]
        ELSE RoleArn(p.accountCoreId, p.prefix \o "-s3-access-role")
      deploymentPrefix ==
        IF p.deploymentPrefix # None /\ p.deploymentPrefix[1] # ""
        THEN p.deploymentPrefix ELSE None
  IN IF MissingOrBlank(p.prefix)
     THEN Thrown("StackRps: prefix is required and cannot be empty")
     ELSE IF ~TestTwelveDigits(p.accountCoreId)
     THEN Thrown("StackRps: accountCoreId must be a 12-digit AWS account ID")
     ELSE IF MissingOrBlank(p.stackCoreInputBucketName)
     THEN Thrown("StackRps: stackCoreInputBucketName is required and cannot be empty")
     ELSE IF MissingOrBlank(p.stackCoreOutputBucketName)
     THEN Thrown("StackRps: stackCoreOutputBucketName is required and cannot be empty")
     ELSE IF MissingOrBlank(p.region)
     THEN Thrown("StackRps: region is required and cannot be empty")
     ELSE IF deploymentPrefix # None /\ Includes(deploymentPrefix[1], "/")
     THEN Thrown("StackRps: deploymentPrefix must not contain '/'")
     ELSE LET resourcePrefix ==
                IF deploymentPrefix # None
                THEN p.prefix \o "-" \o deploymentPrefix[1] ELSE p.prefix
              roleName == resourcePrefix \o "-processor-lambda-role"
              eventBusName ==
                IF p.existingEventBusName # None /\ p.existingEventBusName[1] # ""
                THEN p.existingEventBusName[1]
                ELSE p.prefix \o "-cross-account-bus"
          IN [error |-> None,
              resources |-> {"ProcessorDLQ", "ProcessorQueue", "ProcessorLambdaRole",
                             "ProcessorLambda"},
              role |-> Some([roleName |-> roleName,
                             roleArn |-> RoleArn(p.accountRpsId, roleName),
                             AssumeCoreS3AccessRole |-> {s3AccessRoleArn}]),
              environment |-> Some([INPUT_BUCKET_NAME |-> p.stackCoreInputBucketName,
                                    OUTPUT_BUCKET_NAME |-> p.stackCoreOutputBucketName,
                                    PREFIX |-> p.prefix,
                                    CORE_S3_ACCESS_ROLE_ARN |-> s3AccessRoleArn,
                                    CDK_DEPLOYMENT_PREFIX |-> deploymentPrefix]),
              eventBus |-> Some(EventBusArn(p.region, p.accountRpsId, eventBusName))]

\* IAM's StringEquals: the two strings are the same.
StringEquals(pattern, str) == pattern = str

\* IAM's StringLike: * stands for any run of characters, ? for any one.
RECURSIVE StringLike(_, _)
StringLike(pattern, str) ==
  IF Len(pattern) = 0
  THEN Len(str) = 0
  ELSE LET c == SubSeq(pattern, 1, 1)
           rest == SubSeq(pattern, 2, Len(pattern))
       IN IF c = "*"
          THEN StringLike(rest, str)
               \/ (Len(str) > 0 /\ StringLike(pattern, SubSeq(str, 2, Len(str))))
          ELSE /\ Len(str) > 0
               /\ c \in {"?", SubSeq(str, 1, 1)}
               /\ StringLike(rest, SubSeq(str, 2, Len(str)))

\* Whether the trust policy of the S3 access role lets the role principalArn
\* assume it: the Principal element names that role or the root of its
\* account, and the aws:PrincipalArn of the request meets the condition.
TrustPolicyAllows(document, principalArn) ==
  /\ IF Includes(document.Principal, ":root")
     THEN StartsWith(principalArn, Replace(document.Principal, ":root", ":role/"))
     ELSE document.Principal = principalArn
  /\ \/ document.StringLike = {}
     \/ \E pattern \in document.StringLike : StringLike(pattern, principalArn)

\* sts:AssumeRole of the role roleArn by the Lambda role of StackRps goes
\* through when the Lambda role's policy allows the action on that ARN and
\* the role of that ARN exists and trusts the Lambda role.
AssumeRoleAllowed(core, rps, roleArn) ==
  /\ roleArn \in rps.role[1].AssumeCoreS3AccessRole
  /\ core.role[1].roleArn = roleArn
  /\ TrustPolicyAllows(core.role[1].assumeRolePolicyDocument, rps.role[1].roleArn)

\* ------------------------------------------------------------- the pipeline
\* An upload to a Core bucket reaches a processor through the bucket's
\* EventBridge notifications, the Core rule that forwards them to the bus in
\* the RPS account, the rule of each RPS stack on that bus, and that stack's
\* queue.  Two variants are deployed this way: the two-bucket one (part_000,
\* part_001, stack-core.ts) and the prefix-based one with one bucket
\* (lambda/processor.ts, stack-rps.ts), whose input and output prefix are
\* props of the stacks, 'input/' and 'output/' unless given.
MaxPuts == 4

\* The two-bucket variant has no prefixes: keys are kept as they are.
MainPipeline == [variant |-> "twoBucket", inputPrefix |-> "", outputPrefix |-> ""]

Pipelines ==
  {MainPipeline}
  \cup [variant : {"prefix"}, inputPrefix : {INPUT_PREFIX},
        outputPrefix : {OUTPUT_PREFIX, INPUT_PREFIX, INPUT_PREFIX \o "john/"}]

\* The RPS stacks deployed side by side: one without a deployment prefix and
\* two with one.
Deployments == {None, Some("jo"), Some("john")}

\* process.env.X || fallback
EnvOr(value, fallback) == IF value = "" THEN fallback ELSE value

\* The environment StackRps gives the Lambda of deployment d.
HandlerConfig(p, d) ==
  IF p.variant = "twoBucket"
  THEN [processor |-> "assumeRole", CDK_DEPLOYMENT_PREFIX |-> d,
        CORE_S3_ACCESS_ROLE_ARN |-> Some(S3AccessRoleArn),
        INPUT_PREFIX |-> INPUT_PREFIX, OUTPUT_PREFIX |-> OUTPUT_PREFIX]
  ELSE [processor |-> "prefix", CDK_DEPLOYMENT_PREFIX |-> d,
        CORE_S3_ACCESS_ROLE_ARN |-> None,
        INPUT_PREFIX |-> EnvOr(p.inputPrefix, "input/"),
        OUTPUT_PREFIX |-> EnvOr(p.outputPrefix, "output/")]

\* The buckets with eventBridgeEnabled: true.
EventBridgeEnabled(p) ==
  IF p.variant = "twoBucket" THEN {INPUT_BUCKET_NAME} ELSE {BUCKET_NAME}

\* The event pattern of the Core stack's rule.
CoreRuleMatches(p, bucket, key) ==
  IF p.variant = "twoBucket"
  THEN bucket = INPUT_BUCKET_NAME
  ELSE bucket = BUCKET_NAME /\ StartsWith(key, p.inputPrefix)

\* The event pattern of the rule of the RPS stack of deployment d.
RpsRuleMatches(p, d, bucket, key) ==
  IF p.variant = "twoBucket"
  THEN bucket = INPUT_BUCKET_NAME
  ELSE LET objectKeyPrefix == IF d # None /\ d[1] # ""
                              THEN p.inputPrefix \o d[1] \o "/"
                              ELSE p.inputPrefix
       IN bucket = BUCKET_NAME /\ StartsWith(key, objectKeyPrefix)

\* The events an object put at bucket/key puts into the queues; `by` tells
\* whether a user or a processor put the object.
Notify(p, bucket, key, by) ==
  IF bucket \in EventBridgeEnabled(p) /\ CoreRuleMatches(p, bucket, key)
  THEN { [deployment |-> d, Bucket |-> bucket, Key |-> key, by |-> by] :
           d \in {x \in Deployments : RpsRuleMatches(p, x, bucket, key)} }
  ELSE {}

\* The keys users upload.
UploadKeys(p) ==
  IF p.variant = "twoBucket"
  THEN {"a.txt", "john/a.txt"}
  ELSE {p.inputPrefix \o "a.txt", p.inputPrefix \o "john/a.txt", "other/a.txt"}

\* ------------------------------------------------------ the shared event bus
\* The RPS stacks that use one event bus name: the stack of the stage and the
\* stacks of three deployment prefixes of it.
BusStacks ==
  { [prefix |-> "dev", deploymentPrefix |-> d] :
      d \in {None, Some("john"), Some("alice"), Some("bob")} }

\* A variant in which the statement is named after the stage alone.
PermissionStatementIdOfStage(stack) == "AllowCoreAccount-" \o stack.prefix

\* permissionStatementId of the stack.
PermissionStatementId(stack) ==
  IF stack.deploymentPrefix # None /\ stack.deploymentPrefix[1] # ""
  THEN "AllowCoreAccount-" \o stack.prefix \o "-" \o stack.deploymentPrefix[1]
  ELSE "AllowCoreAccount-" \o stack.prefix

\* EventBridge's createEventBus, putPermission and removePermission on the
\* bus b: the error code returned, if any, and the bus afterwards.
CreateEventBus(b) ==
  IF b.exists
  THEN [error |-> Some("ResourceAlreadyExistsException"), bus |-> b]
  ELSE [error |-> None, bus |-> [exists |-> TRUE, statements |-> {}]]

PutPermission(b, statementId) ==
  IF ~b.exists
  THEN [error |-> Some("ResourceNotFoundException"), bus |-> b]
  ELSE [error |-> None,
        bus |-> [b EXCEPT !.statements = @ \cup {statementId}]]

RemovePermission(b, statementId) ==
  IF ~b.exists \/ statementId \notin b.statements
  THEN [error |-> Some("ResourceNotFoundException"), bus |-> b]
  ELSE [error |-> None,
        bus |-> [b EXCEPT !.statements = @ \ {statementId}]]

\* A custom resource without ignoreErrorCodesMatching.
SdkCallFailsOnAnyError(result, ignoreErrorCodesMatching) == result.error # None

\* AwsCustomResource: the call fails the resource unless it returned no error
\* or one matching ignoreErrorCodesMatching.
SdkCallFails(result, ignoreErrorCodesMatching) ==
  result.error # None /\ result.error[1] # ignoreErrorCodesMatching

VARIABLES
  config,                 \* the deployed processor and its environment
  now,                    \* the wall clock
  cachedCredentials,      \* module-level cache: None or Some(Credentials)
  credentialsExpiration,  \* module-level cache: None or Some([rid, time])
  stsCalls,               \* AssumeRole requests sent to STS so far
  pc,                     \* where the handler invocation stands
  invokedAt,              \* the clock when the invocation began
  event,                  \* the SQSEvent's Records of the invocation
  idx,                    \* position of the for loop in event.Records
  batchItemFailures,      \* the failure list being built
  s3Client,               \* None or Some(credentials of the handler's S3 client)
  fileContent,            \* None or Some(content read for the record in progress)
  objectsRead,            \* per record of the batch: None or Some(bytes GetObject gave)
  lastPath,               \* branch the last getS3ClientWithAssumedRole call took
  attempts,               \* per record of the batch: calls of processRecord
  raised,                 \* positions of the records whose processRecord threw
  s3Requests,             \* the GetObject/PutObject commands sent, in order
  written,                \* the objects stored by the PutObject commands that succeeded
  callers,                \* concurrent calls of getS3ClientWithAssumedRole
  queue,                  \* the processor queue: per message its body, receive
                          \* count, failed deliveries and whereabouts
  props,                  \* the props the CDK app hands to the two stacks
  stackCore,              \* None or Some(outcome of new StackCore(...))
  stackRps,               \* None or Some(outcome of new StackRps(...))
  pipeline,               \* the variant deployed and its input and output prefix
  stored,                 \* the objects put into the Core buckets so far
  pending,                \* the events waiting in the deployments' queues
  processed,              \* the events a deployment's processRecord did not skip
  puts,                   \* PutObject commands of the processors that succeeded
  eventBus,               \* the custom event bus in the RPS account
  rpsStacks,              \* per RPS stack: where its deployment stands
  crFailures              \* the custom resource calls that failed

cacheVars == << cachedCredentials, credentialsExpiration >>
credVars == << stsCalls, lastPath, s3Client >>
recordVars == << fileContent, objectsRead, attempts, raised, s3Requests, written >>
vars == << config, now, cachedCredentials, credentialsExpiration, stsCalls, pc, invokedAt,
           event, idx,
           batchItemFailures, s3Client, fileContent, objectsRead, lastPath, attempts,
           raised, s3Requests, written, callers, queue, props, stackCore, stackRps,
           pipeline, stored, pending, processed, puts, eventBus, rpsStacks,
           crFailures >>
busVars == << eventBus, rpsStacks, crFailures >>
pipeVars == << pipeline, stored, pending, processed, puts >>
stackVars == << props, stackCore, stackRps >>
handlerVars == << pc, invokedAt, event, idx, batchItemFailures, s3Client, fileContent, objectsRead,
                 lastPath, attempts, raised, s3Requests, written >>

\* ------------------------------------------------- getS3ClientWithAssumedRole

\* Variants of the freshness test with a slip in it: the expiration taken in
\* seconds against a clock in milliseconds, and `<=` in place of `<`.
IsCacheFreshSeconds(cc, ce, t) ==
  /\ cc # None
  /\ ce # None
  /\ t < (ce[1].time \div 1000) - bufferMs

IsCacheFreshInclusive(cc, ce, t) ==
  /\ cc # None
  /\ ce # None
  /\ t <= ce[1].time - bufferMs

\* A variant without the refresh buffer.
IsCacheFreshNoBuffer(cc, ce, t) ==
  /\ cc # None
  /\ ce # None
  /\ t < ce[1].time

\* Lines 48-50: both cache variables are truthy and the call's `now` is
\* strictly before the cached expiration minus the buffer.
IsCacheFresh(cc, ce, t) ==
  /\ cc # None
  /\ ce # None
  /\ t < ce[1].time - bufferMs

\* Lines 52-58 and 82-88: the credentials handed to new S3Client.
ClientCredentials(c) ==
  [ accessKeyId     |-> c.AccessKeyId,
    secretAccessKey |-> c.SecretAccessKey,
    sessionToken    |-> c.SessionToken ]

\* A variant of lines 77-78 that fills cachedCredentials only while it is
\* null (`cachedCredentials ??= ...`) and always assigns the expiration.
AfterAssumeRoleKeepsCredentials(resp, cc, ce) ==
  IF resp.kind = "throw" \/ resp.Credentials = None
  THEN [ cachedCredentials |-> cc, credentialsExpiration |-> ce,
         threw |-> TRUE, client |-> None ]
  ELSE LET kept == IF cc = None THEN resp.Credentials ELSE cc IN
       [ cachedCredentials |-> kept,
         credentialsExpiration |-> resp.Credentials[1].Expiration,
         threw |-> resp.Credentials[1].Expiration = None,
         client |-> IF resp.Credentials[1].Expiration = None
                    THEN None
                    ELSE Some(ClientCredentials(kept[1])) ]

\* Lines 70-89, from the answer of stsClient.send on: the new values of the
\* two cache variables (cc, ce are the old ones), whether the function threw,
\* and the credentials of the S3 client it returned.
\*   line 70: send rejected: nothing is assigned;
\*   line 72: no Credentials in the response: throw, nothing is assigned;
\*   lines 77-78: both variables are assigned from the response;
\*   line 79: toISOString() of an undefined Expiration is a TypeError, thrown
\*            after the two assignments;
\*   lines 82-88: the client is built from cachedCredentials, just assigned.
AfterAssumeRole(resp, cc, ce) ==
  IF resp.kind = "throw" \/ resp.Credentials = None
  THEN [ cachedCredentials |-> cc, credentialsExpiration |-> ce,
         threw |-> TRUE, client |-> None ]
  ELSE [ cachedCredentials |-> resp.Credentials,
         credentialsExpiration |-> resp.Credentials[1].Expiration,
         threw |-> resp.Credentials[1].Expiration = None,
         client |-> IF resp.Credentials[1].Expiration = None
                    THEN None
                    ELSE Some(ClientCredentials(resp.Credentials[1])) ]

InitLambda ==
  /\ config \in Configs
  /\ now = 0
  /\ cachedCredentials = None
  /\ credentialsExpiration = None
  /\ stsCalls = 0
  /\ pc = "idle"
  /\ invokedAt = 0
  /\ event = << >>
  /\ idx = 0
  /\ batchItemFailures = << >>
  /\ s3Client = None
  /\ fileContent = None
  /\ objectsRead = << >>
  /\ lastPath = "none"
  /\ attempts = << >>
  /\ raised = {}
  /\ s3Requests = << >>
  /\ written = {}
  /\ callers = [c \in 1..NumCallers |-> [pc |-> "idle", call |-> 0, client |-> None]]
  /\ queue = [m \in QueueMessageIds |->
               [body |-> NotYetRead, receiveCount |-> 0, failed |-> 0,
                status |-> "visible"]]

\* Nothing uploaded yet, and no RPS stack deployed.
InitBuckets ==
  /\ stored = {}
  /\ pending = {}
  /\ processed = {}
  /\ puts = 0
  /\ eventBus = [exists |-> FALSE, statements |-> {}]
  /\ rpsStacks = [s \in BusStacks |-> "absent"]
  /\ crFailures = {}

\* The app of main.ts with its defaults; neither stack constructed yet.
Init ==
  /\ InitLambda
  /\ props = MainProps
  /\ stackCore = None
  /\ stackRps = None
  /\ pipeline = MainPipeline
  /\ InitBuckets

\* Time passes.  An invocation is ended by the Lambda service LambdaTimeoutMs
\* after it began, so while one runs the clock is less than that past its
\* beginning.
Tick ==
  /\ now + TickMs <= MaxTime
  /\ pc \in {"idle", "returned", "rejected"} \/ now - invokedAt < LambdaTimeoutMs
  /\ now' = now + TickMs
  /\ UNCHANGED << config, stackVars, pipeVars, busVars, queue, cacheVars, credVars, recordVars, pc, invokedAt, event, idx,
                  batchItemFailures, callers >>

\* handler, lines 91-95: a new invocation in the same container.  It calls
\* getS3ClientWithAssumedRole, which runs to its first await: on a fresh cache
\* it returns a client built from the cache (lines 48-59); otherwise it sends
\* one AssumeRoleCommand (lines 63-70) and the handler waits for the answer.
StartHandler(records) ==
  /\ config.processor = "assumeRole"
  /\ pc \in {"idle", "returned", "rejected"}
  /\ event' = records
  /\ invokedAt' = now
  /\ idx' = 1
  /\ batchItemFailures' = << >>
  /\ fileContent' = None
  /\ attempts' = [i \in 1..Len(event') |-> 0]
  /\ objectsRead' = [i \in 1..Len(event') |-> None]
  /\ raised' = {}
  /\ s3Requests' = << >>
  /\ written' = {}
  /\ UNCHANGED << config, stackVars, pipeVars, busVars, now, cacheVars, callers >>
  /\ IF IsCacheFresh(cachedCredentials, credentialsExpiration, now)
     THEN /\ lastPath' = "hit"
          /\ s3Client' = Some(ClientCredentials(cachedCredentials[1]))
          /\ stsCalls' = stsCalls
          /\ pc' = "loop"
     ELSE /\ stsCalls < MaxStsCalls
          /\ lastPath' = "miss"
          /\ stsCalls' = stsCalls + 1
          /\ s3Client' = None
          /\ pc' = "assume"

\* handler of the prefix-based processor (processor.ts lines 160-163): there
\* is no role to assume; the module-level client has the Lambda's own
\* credentials.
StartHandlerPrefix(records) ==
  /\ config.processor = "prefix"
  /\ pc \in {"idle", "returned"}
  /\ event' = records
  /\ invokedAt' = now
  /\ idx' = 1
  /\ batchItemFailures' = << >>
  /\ fileContent' = None
  /\ attempts' = [i \in 1..Len(event') |-> 0]
  /\ objectsRead' = [i \in 1..Len(event') |-> None]
  /\ raised' = {}
  /\ s3Requests' = << >>
  /\ written' = {}
  /\ s3Client' = Some(DefaultCredentials)
  /\ pc' = "loop"
  /\ UNCHANGED << config, stackVars, pipeVars, busVars, now, cacheVars, stsCalls, lastPath, callers >>

\* An invocation with a batch of any size up to MaxRecords.
Invoke == \E records \in Records : StartHandler(records) /\ UNCHANGED queue

InvokePrefix == \E records \in Records : StartHandlerPrefix(records) /\ UNCHANGED queue

\* getS3ClientWithAssumedRole resumed with the outcome of stsClient.send, and
\* the handler's line 95, which is outside the try of the loop: a throw of
\* getS3ClientWithAssumedRole rejects the handler's promise.
AssumeRoleReturns ==
  /\ pc = "assume"
  /\ UNCHANGED << config, stackVars, pipeVars, busVars, queue, now, invokedAt, stsCalls, lastPath, event, idx, batchItemFailures,
                  recordVars, callers >>
  /\ \E resp \in SendAssumeRole(config.CORE_S3_ACCESS_ROLE_ARN, stsCalls, now) :
       LET after == AfterAssumeRole(resp, cachedCredentials, credentialsExpiration) IN
       /\ cachedCredentials' = after.cachedCredentials
       /\ credentialsExpiration' = after.credentialsExpiration
       /\ s3Client' = after.client
       /\ pc' = IF after.threw THEN "rejected" ELSE "loop"

\* ------------------------------------------------------- handler's for loop

\* Variants of the loop body: one without the try/catch, where a throw of
\* processRecord ends the handler, and one whose catch pushes nothing.
EndIterationRethrow(threw) ==
  /\ batchItemFailures' =
       IF threw
       THEN Append(batchItemFailures, [itemIdentifier |-> event[idx].messageId])
       ELSE batchItemFailures
  /\ idx' = idx + 1
  /\ pc' = IF threw \/ idx = Len(event) THEN "returned" ELSE "loop"
  /\ fileContent' = None

\* A variant whose catch runs the record that threw once more.
EndIterationRetry(threw) ==
  /\ batchItemFailures' = batchItemFailures
  /\ idx' = IF threw /\ attempts[idx] <= 1 THEN idx ELSE idx + 1
  /\ pc' = IF idx' > Len(event) THEN "returned" ELSE "loop"
  /\ fileContent' = None

EndIterationNoPush(threw) ==
  /\ batchItemFailures' = batchItemFailures
  /\ idx' = idx + 1
  /\ pc' = IF idx = Len(event) THEN "returned" ELSE "loop"
  /\ fileContent' = None

\* Lines 99-109: the end of one iteration.  A throw of processRecord is caught
\* and the record's messageId pushed; then the loop goes on, and after the
\* last record the handler returns { batchItemFailures } (lines 111-113).
\* (The throw itself is recorded in `raised` by the step that throws.)
EndIteration(threw) ==
  /\ batchItemFailures' =
       IF threw
       THEN Append(batchItemFailures, [itemIdentifier |-> event[idx].messageId])
       ELSE batchItemFailures
  /\ idx' = idx + 1
  /\ pc' = IF idx = Len(event) THEN "returned" ELSE "loop"
  /\ fileContent' = None

\* processRecord, lines 116-133 (processor.ts lines 182-219): parse the body,
\* take detail.object.key, return early for a key to skip, else send GetObject
\* for the key.  With sourceKey undefined the prefix-based processor throws a
\* TypeError at sourceKey.startsWith / sourceKey.substring (lines 196, 204);
\* in the two-bucket processor the send of line 133 rejects while the command
\* is serialized (Key is a required label of the request path), before any
\* request leaves the client.
ProcessRecordStartFrom(bodies) ==
  /\ pc = "loop"
  /\ idx <= Len(event)
  /\ attempts' = [attempts EXCEPT ![idx] = @ + 1]
  /\ UNCHANGED << config, stackVars, pipeVars, busVars, queue, now, invokedAt, cacheVars, credVars, objectsRead, written, callers >>
  /\ \E body \in (IF event[idx].body # NotYetRead THEN {event[idx].body}
                   ELSE bodies) :
       LET parsed == ParseBody(body) IN
       /\ event' = [event EXCEPT ![idx].body = body]
       /\ IF parsed.threw \/ parsed.sourceKey = None
          THEN /\ raised' = raised \cup {idx}
               /\ EndIteration(TRUE)
               /\ UNCHANGED s3Requests
          ELSE IF ShouldSkip(config, parsed.sourceKey[1])
               THEN /\ EndIteration(FALSE)
                    /\ UNCHANGED << raised, s3Requests >>
               ELSE /\ s3Requests' = Append(s3Requests,
                           [op |-> "GetObject", idx |-> idx, client |-> s3Client,
                            command |-> GetObjectCommand(config, body.bucket,
                                                         parsed.sourceKey[1])])
                    /\ pc' = "read"
                    /\ UNCHANGED << idx, batchItemFailures, raised, fileContent >>

\* processRecord for the events of the rules.
ProcessRecordStart ==
  ProcessRecordStartFrom(IF config.processor = "assumeRole" THEN TwoBucketBodies
                         ELSE PrefixBodies)

\* processRecord for messages that name any bucket.
ProcessRecordOfAnyBucket == ProcessRecordStartFrom(AnyBucketBodies(config))

\* processRecord, lines 133-162 (processor.ts lines 219-258), resumed with
\* the outcome of GetObject: the send rejects, the response has no Body, the
\* body stream errors (streamToString rejects), or the content arrives; then
\* the content gets its header and PutObject is sent for the output key.
GetObjectReturns ==
  LET sourceKey == event[idx].body.key[1] IN
  /\ pc = "read"
  /\ UNCHANGED << config, stackVars, pipeVars, busVars, queue, now, invokedAt, cacheVars, credVars, event, attempts, written, callers >>
  /\ \E outcome \in GetObjectOutcomes :
       IF outcome.kind # "ok"
       THEN /\ raised' = raised \cup {idx}
            /\ EndIteration(TRUE)
            /\ UNCHANGED << s3Requests, objectsRead >>
       ELSE /\ objectsRead' = [objectsRead EXCEPT ![idx] = Some(outcome.content)]
            /\ fileContent' = Some(Utf8Decode(outcome.content))
            /\ s3Requests' = Append(s3Requests,
                   [op |-> "PutObject", idx |-> idx, client |-> s3Client,
                    command |-> PutObjectCommand(config, sourceKey,
                                   processFileContent(fileContent'[1], sourceKey, now),
                                   now)])
            /\ pc' = "write"
            /\ UNCHANGED << idx, batchItemFailures, raised >>

\* processRecord, lines 162-165 (processor.ts lines 258-261), resumed with
\* the outcome of PutObject.
PutObjectReturns ==
  LET command == s3Requests[Len(s3Requests)].command
      writtenBefore == \E w \in written : w.Bucket = command.Bucket /\ w.Key = command.Key
  IN
  /\ pc = "write"
  /\ UNCHANGED << config, stackVars, pipeVars, busVars, queue, now, invokedAt, cacheVars, credVars, event, attempts, objectsRead,
                  s3Requests, callers >>
  /\ \E exists \in (IF writtenBefore THEN {TRUE} ELSE BOOLEAN) :
       \E outcome \in PutObjectOutcomes(command, exists) :
         /\ written' = IF outcome = "ok"
                       THEN written \cup {StoredObject(idx, command)}
                       ELSE written
         /\ raised' = IF outcome = "ok" THEN raised ELSE raised \cup {idx}
         /\ EndIteration(outcome # "ok")

Next ==
  \/ Tick
  \/ ProcessRecordStart
  \/ GetObjectReturns
  \/ PutObjectReturns
  \/ Invoke
  \/ InvokePrefix
  \/ AssumeRoleReturns

Spec == Init /\ [][Next]_vars

\* The handler on messages that name any bucket.
NextBuckets ==
  \/ ProcessRecordOfAnyBucket
  \/ GetObjectReturns
  \/ PutObjectReturns
  \/ Invoke
  \/ InvokePrefix
  \/ AssumeRoleReturns

SpecBuckets == Init /\ [][NextBuckets]_vars

\* ------------------------------------- getS3ClientWithAssumedRole, concurrently
\* The function is async: a call runs synchronously to its await of
\* stsClient.send (line 70) and, once resumed, synchronously to its return.
\* Calls made while another call waits interleave at that await only.

\* Lines 44-70 of the call of caller c.
CallGetS3Client(c) ==
  /\ callers[c].pc # "await"
  /\ UNCHANGED << config, stackVars, pipeVars, busVars, queue, now, cacheVars, handlerVars >>
  /\ IF IsCacheFresh(cachedCredentials, credentialsExpiration, now)
     THEN /\ callers' = [callers EXCEPT ![c] =
                 [pc |-> "returned", call |-> 0,
                  client |-> Some(ClientCredentials(cachedCredentials[1]))]]
          /\ stsCalls' = stsCalls
     ELSE /\ stsCalls < MaxStsCalls
          /\ stsCalls' = stsCalls + 1
          /\ callers' = [callers EXCEPT ![c] =
                 [pc |-> "await", call |-> stsCalls + 1, client |-> None]]

\* Lines 70-89 of the call of caller c, resumed with the outcome of its send.
ResumeGetS3Client(c) ==
  /\ callers[c].pc = "await"
  /\ UNCHANGED << config, stackVars, pipeVars, busVars, queue, now, stsCalls, handlerVars >>
  /\ \E resp \in SendAssumeRole(config.CORE_S3_ACCESS_ROLE_ARN, callers[c].call, now) :
       LET after == AfterAssumeRole(resp, cachedCredentials, credentialsExpiration) IN
       /\ cachedCredentials' = after.cachedCredentials
       /\ credentialsExpiration' = after.credentialsExpiration
       /\ callers' = [callers EXCEPT ![c] =
              [pc |-> IF after.threw THEN "threw" ELSE "returned", call |-> 0,
               client |-> after.client]]

NextConc ==
  \/ Tick
  \/ \E c \in 1..NumCallers : CallGetS3Client(c)
  \/ \E c \in 1..NumCallers : ResumeGetS3Client(c)

InitConc == Init /\ config.processor = "assumeRole"

SpecConc == InitConc /\ [][NextConc]_vars

\* ------------------------------------------- the processor queue and its DLQ
\* The queue (stack-rps.ts lines 81-93) with its Lambda event source (lines
\* 213-220).  A receive counts against maxReceiveCount; a message received
\* maxReceiveCount times that comes back is moved to the dead-letter queue
\* instead of being received again.

\* The batches the event source can form of the messages in V: up to
\* batchSize of them (and MaxRecords), each once, in any order.
BatchesOf(V) ==
  { ids \in UNION { [1..n -> V] : n \in 1..(IF batchSize < MaxRecords
                                            THEN batchSize ELSE MaxRecords) } :
      \A i, j \in 1..Len(ids) : ids[i] = ids[j] => i = j }

\* A variant for an event source without reportBatchItemFailures: the
\* handler's response is ignored, and a batch whose invocation did not fail is
\* deleted whole.
AfterInvocationWholeBatch(q, records, failures, rejected) ==
  [ m \in DOMAIN q |->
      IF q[m].status # "inflight"
      THEN q[m]
      ELSE LET i == CHOOSE k \in 1..Len(records) : records[k].messageId = m IN
           IF rejected
           THEN [ q[m] EXCEPT !.body = records[i].body, !.failed = @ + 1,
                              !.status = "visible" ]
           ELSE [ q[m] EXCEPT !.body = records[i].body, !.status = "deleted" ] ]

\* What the event source does with the batch once the invocation is over
\* (reportBatchItemFailures: true): after a rejected invocation every message
\* of the batch stays in the queue; after a response, the messages named in
\* batchItemFailures stay in the queue and the others are deleted.  A
\* message that stays becomes visible again.
AfterInvocation(q, records, failures, rejected) ==
  [ m \in DOMAIN q |->
      IF q[m].status # "inflight"
      THEN q[m]
      ELSE LET i == CHOOSE k \in 1..Len(records) : records[k].messageId = m
               reported == \E j \in 1..Len(failures) : failures[j].itemIdentifier = m
           IN IF rejected \/ (reportBatchItemFailures /\ reported)
              THEN [ q[m] EXCEPT !.body = records[i].body, !.failed = @ + 1,
                                 !.status = "visible" ]
              ELSE [ q[m] EXCEPT !.body = records[i].body, !.status = "deleted" ] ]

\* The event source receives a batch of visible messages and invokes the
\* handler with it, one invocation at a time.
ReceiveMessages ==
  /\ \A m \in QueueMessageIds : queue[m].status # "inflight"
  /\ \E ids \in BatchesOf({ m \in QueueMessageIds :
                               /\ queue[m].status = "visible"
                               /\ queue[m].receiveCount < maxReceiveCount }) :
       LET records == [ i \in 1..Len(ids) |->
                          [messageId |-> ids[i], body |-> queue[ids[i]].body] ]
       IN /\ queue' = [ m \in QueueMessageIds |->
                          IF \E i \in 1..Len(ids) : ids[i] = m
                          THEN [ queue[m] EXCEPT !.receiveCount = @ + 1,
                                                 !.status = "inflight" ]
                          ELSE queue[m] ]
          /\ StartHandler(records) \/ StartHandlerPrefix(records)

\* The invocation is over: the handler returned its response or rejected.
SettleInvocation ==
  /\ pc \in {"returned", "rejected"}
  /\ \E m \in QueueMessageIds : queue[m].status = "inflight"
  /\ queue' = AfterInvocation(queue, event, batchItemFailures, pc = "rejected")
  /\ UNCHANGED << config, stackVars, pipeVars, busVars, now, cacheVars, handlerVars, stsCalls, callers >>

\* The redrive policy: a message received maxReceiveCount times and visible
\* again is moved to the dead-letter queue.
MoveToDeadLetterQueue(m) ==
  /\ queue[m].status = "visible"
  /\ queue[m].receiveCount >= maxReceiveCount
  /\ queue' = [queue EXCEPT ![m].status = "dlq"]
  /\ UNCHANGED << config, stackVars, pipeVars, busVars, now, cacheVars, handlerVars, stsCalls, callers >>

NextQueue ==
  \/ ReceiveMessages
  \/ AssumeRoleReturns
  \/ ProcessRecordStart
  \/ GetObjectReturns
  \/ PutObjectReturns
  \/ SettleInvocation
  \/ \E m \in QueueMessageIds : MoveToDeadLetterQueue(m)

SpecQueue == Init /\ [][NextQueue]_vars

\* The queue service keeps applying the redrive policy: a message that is due
\* for the dead-letter queue is moved there.
SpecQueueLive ==
  SpecQueue /\ \A m \in QueueMessageIds : WF_vars(MoveToDeadLetterQueue(m))

\* ------------------------------------------------- the app builds the stacks
lambdaVars == << config, now, cacheVars, stsCalls, handlerVars, callers, queue >>

NewStackCore ==
  /\ stackCore = None
  /\ stackCore' = Some(StackCore(props))
  /\ UNCHANGED << props, stackRps, lambdaVars, pipeVars, busVars >>

NewStackRps ==
  /\ stackRps = None
  /\ stackRps' = Some(StackRps(props))
  /\ UNCHANGED << props, stackCore, lambdaVars, pipeVars, busVars >>

NextStacks ==
  \/ NewStackCore
  \/ NewStackRps

InitStacks ==
  /\ InitLambda
  /\ config = [processor |-> "assumeRole", CDK_DEPLOYMENT_PREFIX |-> None,
               CORE_S3_ACCESS_ROLE_ARN |-> Some(S3AccessRoleArn),
               INPUT_PREFIX |-> INPUT_PREFIX, OUTPUT_PREFIX |-> OUTPUT_PREFIX]
  /\ props \in StackProps
  /\ stackCore = None
  /\ stackRps = None
  /\ pipeline = MainPipeline
  /\ InitBuckets

SpecStacks == InitStacks /\ [][NextStacks]_vars

\* -------------------------------------------------- uploads and their events
\* A user puts an object into the bucket the processors read.
Upload(key) ==
  LET bucket == ReadBucket(HandlerConfig(pipeline, None)) IN
  /\ [Bucket |-> bucket, Key |-> key] \notin stored
  /\ stored' = stored \cup {[Bucket |-> bucket, Key |-> key]}
  /\ pending' = pending \cup Notify(pipeline, bucket, key, "user")
  /\ UNCHANGED << pipeline, processed, puts, lambdaVars, stackVars, busVars >>

\* The Lambda of a deployment takes an event off its queue and runs
\* processRecord on it: the early return for a key to skip, else the read,
\* and the write of the output key unless one of the two fails.
HandleEvent(e) ==
  LET cfg == HandlerConfig(pipeline, e.deployment) IN
  /\ e \in pending
  /\ UNCHANGED << pipeline, lambdaVars, stackVars, busVars >>
  /\ IF ShouldSkip(cfg, e.Key)
     THEN /\ pending' = pending \ {e}
          /\ UNCHANGED << stored, processed, puts >>
     ELSE /\ processed' = processed \cup {e}
          /\ \/ /\ pending' = pending \ {e}
                /\ UNCHANGED << stored, puts >>
             \/ /\ puts < MaxPuts
                /\ puts' = puts + 1
                /\ stored' = stored \cup
                     {[Bucket |-> WriteBucket(cfg), Key |-> OutputKey(cfg, e.Key)]}
                /\ pending' = (pending \ {e})
                     \cup Notify(pipeline, WriteBucket(cfg), OutputKey(cfg, e.Key),
                                 "processor")

NextPipeline ==
  \/ \E key \in UploadKeys(pipeline) : Upload(key)
  \/ \E e \in pending : HandleEvent(e)

InitPipeline ==
  /\ InitLambda
  /\ config = HandlerConfig(MainPipeline, None)
  /\ props = MainProps
  /\ stackCore = None
  /\ stackRps = None
  /\ pipeline \in Pipelines
  /\ InitBuckets

SpecPipeline == InitPipeline /\ [][NextPipeline]_vars

\* ------------------------------------------- deploying the RPS stacks' bus
\* EnsureEventBus of stack s, onCreate or onUpdate: createEventBus.  A failed
\* custom resource fails the deployment, which leaves the stack as it was.
EnsureEventBus(s) ==
  /\ rpsStacks[s] \in {"absent", "deployed"}
  /\ LET result == CreateEventBus(eventBus) IN
     /\ eventBus' = result.bus
     /\ IF SdkCallFails(result, "ResourceAlreadyExistsException")
        THEN /\ crFailures' = crFailures \cup
                  {[stack |-> s, resource |-> "EnsureEventBus", error |-> result.error[1]]}
             /\ UNCHANGED rpsStacks
        ELSE /\ rpsStacks' = [rpsStacks EXCEPT ![s] =
                  IF @ = "absent" THEN "creating" ELSE "updating"]
             /\ UNCHANGED crFailures
  /\ UNCHANGED << lambdaVars, stackVars, pipeVars >>

\* GrantCoreAccountPermission of stack s, onCreate or onUpdate, after
\* EnsureEventBus: putPermission with the stack's statement id.
GrantCoreAccountPermission(s) ==
  /\ rpsStacks[s] \in {"creating", "updating"}
  /\ LET result == PutPermission(eventBus, PermissionStatementId(s)) IN
     /\ eventBus' = result.bus
     /\ IF SdkCallFails(result, "ResourceAlreadyExistsException")
        THEN /\ crFailures' = crFailures \cup
                  {[stack |-> s, resource |-> "GrantCoreAccountPermission",
                    error |-> result.error[1]]}
             /\ rpsStacks' = [rpsStacks EXCEPT ![s] =
                  IF @ = "creating" THEN "absent" ELSE "deployed"]
        ELSE /\ rpsStacks' = [rpsStacks EXCEPT ![s] = "deployed"]
             /\ UNCHANGED crFailures
  /\ UNCHANGED << lambdaVars, stackVars, pipeVars >>

\* Deleting stack s: GrantCoreAccountPermission's onDelete, removePermission
\* with the stack's statement id; EnsureEventBus has no onDelete.
DeleteStack(s) ==
  /\ rpsStacks[s] = "deployed"
  /\ LET result == RemovePermission(eventBus, PermissionStatementId(s)) IN
     /\ eventBus' = result.bus
     /\ IF SdkCallFails(result, "ResourceNotFoundException")
        THEN /\ crFailures' = crFailures \cup
                  {[stack |-> s, resource |-> "GrantCoreAccountPermission",
                    error |-> result.error[1]]}
             /\ UNCHANGED rpsStacks
        ELSE /\ rpsStacks' = [rpsStacks EXCEPT ![s] = "absent"]
             /\ UNCHANGED crFailures
  /\ UNCHANGED << lambdaVars, stackVars, pipeVars >>

NextBus ==
  \/ \E s \in BusStacks : EnsureEventBus(s)
  \/ \E s \in BusStacks : GrantCoreAccountPermission(s)
  \/ \E s \in BusStacks : DeleteStack(s)

InitBus ==
  /\ InitLambda
  /\ config = HandlerConfig(MainPipeline, None)
  /\ props = MainProps
  /\ stackCore = None
  /\ stackRps = None
  /\ pipeline = MainPipeline
  /\ InitBuckets

SpecBus == InitBus /\ [][NextBus]_vars

\* ===================================================================== claims

\* A bundle is cached and the clock is before its expiry minus five minutes.
FreshBundleCached ==
  /\ cachedCredentials # None
  /\ credentialsExpiration # None
  /\ now < credentialsExpiration[1].time - bufferMs

\* The step in which the handler of the role-assuming processor calls
\* getS3ClientWithAssumedRole, and the step in which that call returns a
\* client to the handler.
GetCredentialsCalled ==
  /\ config.processor = "assumeRole"
  /\ pc \in {"idle", "returned", "rejected"}
  /\ pc' \in {"loop", "assume"}
GetCredentialsReturns ==
  /\ config.processor = "assumeRole"
  /\ pc \in {"idle", "returned", "rejected", "assume"}
  /\ pc' = "loop"

\* The three key fields of bundle c, as a caller receives them.
KeysOf(c) ==
  [ accessKeyId     |-> c.AccessKeyId,
    secretAccessKey |-> c.SecretAccessKey,
    sessionToken    |-> c.SessionToken ]

\* Every field of bundle c that is present was issued by AssumeRole answer n.
IssuedBy(c, n) ==
  /\ c.AccessKeyId \in {None, Some(n)}
  /\ c.SecretAccessKey \in {None, Some(n)}
  /\ c.SessionToken \in {None, Some(n)}
  /\ c.Expiration # None => c.Expiration[1].rid = n

\* C1. Cache hit: a call made while a bundle is cached and now < expiry - 5 min
\* returns the cached credentials unchanged and sends nothing to STS; and as
\* long as the cached bundle is that fresh, STS has not been called since the
\* call that issued it (one call in total for the whole sequence).
C1_CacheHit ==
  [][ /\ FreshBundleCached => stsCalls = credentialsExpiration[1].rid
      /\ (FreshBundleCached /\ GetCredentialsCalled) =>
            /\ stsCalls' = stsCalls
            /\ pc' = "loop"
            /\ s3Client' = Some(KeysOf(cachedCredentials[1]))
            /\ UNCHANGED cacheVars ]_vars

\* A later invocation served from the cache: one STS call so far, time has
\* passed since, and the handler holds a client built from the cached bundle.
C1_Witness ==
  /\ lastPath = "hit"
  /\ pc = "loop"
  /\ stsCalls = 1
  /\ now >= TickMs
  /\ FreshBundleCached
  /\ s3Client = Some(KeysOf(cachedCredentials[1]))

\* C2. Cache refresh: a call made with an empty cache or at now >= expiry - 5 min
\* (the boundary included) sends exactly one AssumeRole; when the call then
\* returns, the answer's bundle is the cache content and the credentials
\* returned, and a later call inside its validity window returns that bundle.
C2_CacheRefresh ==
  [][ /\ (GetCredentialsCalled /\ ~FreshBundleCached) =>
            (stsCalls' = stsCalls + 1 /\ pc' = "assume")
      /\ pc = "assume" => stsCalls' = stsCalls
      /\ (pc = "assume" /\ pc' = "loop") =>
            /\ cachedCredentials' # None
            /\ IssuedBy(cachedCredentials'[1], stsCalls)
            /\ credentialsExpiration' = cachedCredentials'[1].Expiration
            /\ credentialsExpiration' # None
            /\ s3Client' = Some(KeysOf(cachedCredentials'[1]))
      /\ (GetCredentialsCalled /\ FreshBundleCached) =>
            /\ s3Client' = Some(KeysOf(cachedCredentials[1]))
            /\ UNCHANGED cacheVars ]_vars

\* A refresh: the second AssumeRole answered, at least two buffers after the
\* start, and its bundle is in the cache and in the handler's client.
C2_Witness ==
  /\ lastPath = "miss"
  /\ pc = "loop"
  /\ stsCalls = 2
  /\ now >= 2 * TickMs
  /\ cachedCredentials # None
  /\ cachedCredentials[1].AccessKeyId = Some(2)
  /\ credentialsExpiration = cachedCredentials[1].Expiration
  /\ s3Client = Some(KeysOf(cachedCredentials[1]))

\* C3. Result guarantee: whenever getS3ClientWithAssumedRole returns, the
\* bundle it returns expires at least five minutes after the time of return.
C3_ResultGuarantee ==
  [][ GetCredentialsReturns =>
        /\ cachedCredentials' # None
        /\ cachedCredentials'[1].Expiration # None
        /\ cachedCredentials'[1].Expiration[1].time >= now' + bufferMs ]_vars

\* C4. Cache unchanged on failure: when the call of getS3ClientWithAssumedRole
\* that waits for STS fails, both cache variables are what they were.
C4_CacheUnchangedOnFailure ==
  [][ (pc = "assume" /\ pc' = "rejected") => UNCHANGED cacheVars ]_vars

\* C5. Incomplete bundle is an error: credentials handed to a caller never
\* lack the access key id, the secret key or the session token.
C5_IncompleteBundleIsError ==
  s3Client # None =>
    /\ s3Client[1].accessKeyId # None
    /\ s3Client[1].secretAccessKey # None
    /\ s3Client[1].sessionToken # None

\* C6. Credential failure is not a batch abort: a failure of
\* getS3ClientWithAssumedRole never makes the handler's promise reject.
C6_CredentialFailureNotBatchAbort == pc # "rejected"

\* C7. Single refresh in flight: among concurrent callers at most one
\* AssumeRole call is awaited at any time.
C7_SingleRefreshInFlight ==
  Cardinality({c \in 1..NumCallers : callers[c].pc = "await"}) <= 1

\* C8. No torn bundle: under every interleaving, the cached expiration is the
\* Expiration of the cached credentials (one response), and the key fields a
\* caller received, as far as the answer had them, all come from one
\* AssumeRole answer.
C8_NoTornBundle ==
  /\ credentialsExpiration # None =>
        /\ cachedCredentials # None
        /\ credentialsExpiration = cachedCredentials[1].Expiration
  /\ cachedCredentials # None =>
        \E n \in 1..stsCalls : IssuedBy(cachedCredentials[1], n)
  /\ \A c \in 1..NumCallers :
        callers[c].client # None =>
          \E n \in 1..stsCalls :
            /\ callers[c].client[1].accessKeyId \in {None, Some(n)}
            /\ callers[c].client[1].secretAccessKey \in {None, Some(n)}
            /\ callers[c].client[1].sessionToken \in {None, Some(n)}

\* Two calls overlapped: the second call's answer is stored and returned to
\* caller 2 while caller 1 still waits for the answer to the first call.
C8_Witness ==
  /\ callers[1].pc = "await"
  /\ callers[1].call = 1
  /\ callers[2].pc = "returned"
  /\ callers[2].client # None
  /\ callers[2].client[1].accessKeyId = Some(2)
  /\ cachedCredentials # None
  /\ cachedCredentials[1].AccessKeyId = Some(2)

\* The PutObject of record i to its output location succeeded.
OutputWritten(i) ==
  /\ event[i].body.kind = "event"
  /\ \E w \in written :
        /\ w.idx = i
        /\ w.Bucket = WriteBucket(config)
        /\ w.Key = OutputKey(config, event[i].body.key[1])

\* processRecord returned for record i without sending anything to S3.
Skipped(i) ==
  /\ i \notin raised
  /\ attempts[i] >= 1
  /\ \A j \in 1..Len(s3Requests) : s3Requests[j].idx # i

\* C9 as stated: when the handler returns, every record of the batch was
\* attempted whatever the earlier ones did; and if exactly one record threw,
\* the failure list has one entry and every other record (all of which
\* processRecord completed without an error) has its output object written.
C9_AsStated ==
  pc = "returned" =>
    /\ \A i \in 1..Len(event) : attempts[i] >= 1
    /\ Cardinality(raised) = 1 =>
          /\ Len(batchItemFailures) = 1
          /\ \A i \in (1..Len(event)) \ raised : OutputWritten(i)

\* C9, amended. Batch isolation: when the handler returns, every record of
\* the batch was attempted whatever the earlier ones did; and if exactly one
\* record threw, the failure list has one entry and every other record that
\* was not skipped has its output object written.
C9_BatchIsolation ==
  pc = "returned" =>
    /\ \A i \in 1..Len(event) : attempts[i] >= 1
    /\ Cardinality(raised) = 1 =>
          /\ Len(batchItemFailures) = 1
          /\ \A i \in (1..Len(event)) \ raised : Skipped(i) \/ OutputWritten(i)

\* The first record threw, the handler went on and wrote the second one.
C9_Witness ==
  /\ pc = "returned"
  /\ Len(event) = 2
  /\ raised = {1}
  /\ OutputWritten(2)
  /\ Len(batchItemFailures) = 1

\* C10. Failure list exactness: when the handler returns, every record was
\* attempted exactly once, and the failure list names, once each, exactly the
\* records whose processing threw: a record is named if and only if it was
\* neither skipped nor written (its body did not parse, its read failed or
\* its write failed).
C10_FailureListExact ==
  pc = "returned" =>
    /\ \A i \in 1..Len(event) : attempts[i] = 1
    /\ Len(batchItemFailures) = Cardinality(raised)
    /\ { batchItemFailures[j].itemIdentifier : j \in 1..Len(batchItemFailures) }
         = { event[i].messageId : i \in raised }
    /\ \A i \in 1..Len(event) :
          /\ i \in raised <=> ~(OutputWritten(i) \/ Skipped(i))
          /\ event[i].body.kind # "event" => i \in raised
          /\ ~(OutputWritten(i) /\ Skipped(i))

\* A batch whose first record threw and whose second was skipped: only the
\* first is in the list.
C10_Witness ==
  /\ pc = "returned"
  /\ Len(event) = 2
  /\ raised = {1}
  /\ event[2].body.kind = "event"
  /\ Skipped(2)
  /\ batchItemFailures = << [itemIdentifier |-> event[1].messageId] >>

\* The number of entries of the failure list that name record i.
FailureEntries(i) ==
  Cardinality({ j \in 1..Len(batchItemFailures) :
                  batchItemFailures[j].itemIdentifier = event[i].messageId })

\* C11. Malformed envelope: a record whose body is no JSON or lacks the
\* detail/object/key structure is, once processRecord was called for it, named
\* once in the failure list; no GetObject or PutObject was sent for it and
\* nothing was written for it; the list names no record that did not throw;
\* and the handler still returns with every record of the batch attempted.
C11_MalformedEnvelope ==
  /\ \A i \in 1..Len(event) :
        (event[i].body.kind # "event" /\ attempts[i] >= 1) =>
          /\ FailureEntries(i) = 1
          /\ \A j \in 1..Len(s3Requests) : s3Requests[j].idx # i
          /\ \A w \in written : w.idx # i
  /\ \A i \in 1..Len(event) : FailureEntries(i) >= 1 => i \in raised
  /\ pc = "returned" => \A i \in 1..Len(event) : attempts[i] = 1

\* A body without detail came first and a body without key second; the
\* handler returned with both named and nothing sent to S3.
C11_Witness ==
  /\ pc = "returned"
  /\ Len(event) = 2
  /\ event[1].body.kind = "nodetail"
  /\ event[2].body.kind = "nokey"
  /\ batchItemFailures = << [itemIdentifier |-> "m1"], [itemIdentifier |-> "m2"] >>
  /\ s3Requests = << >>

\* The input convention of the configuration: the two-bucket processor
\* configures none (every key of the input bucket is input); the prefix-based
\* one takes the keys under INPUT_PREFIX<deployment>/ when a deployment prefix
\* is set, and else the keys directly under INPUT_PREFIX, in no subdirectory.
MatchesInputConvention(cfg, key) ==
  IF cfg.processor = "assumeRole"
  THEN TRUE
  ELSE IF cfg.CDK_DEPLOYMENT_PREFIX # None
       THEN StartsWith(key, INPUT_PREFIX \o cfg.CDK_DEPLOYMENT_PREFIX[1] \o "/")
       ELSE /\ StartsWith(key, INPUT_PREFIX)
            /\ ~Includes(SubSeq(key, Len(INPUT_PREFIX) + 1, Len(key)), "/")

\* C12. Skip property: for a record whose key does not match the configured
\* input convention, once processRecord was called for it, no GetObject and no
\* PutObject was sent, nothing was written, and the failure list does not name
\* it.
C12_SkipProperty ==
  \A i \in 1..Len(event) :
    ( /\ event[i].body.kind = "event"
      /\ attempts[i] >= 1
      /\ ~MatchesInputConvention(config, event[i].body.key[1]) ) =>
        /\ \A j \in 1..Len(s3Requests) : s3Requests[j].idx # i
        /\ \A w \in written : w.idx # i
        /\ FailureEntries(i) = 0

\* C13. Role-assumption toggle: with no CORE_S3_ACCESS_ROLE_ARN configured, no
\* AssumeRole is ever sent and every GetObject and PutObject is made with the
\* Lambda's own credentials; with one configured, every GetObject and
\* PutObject is made with credentials that an AssumeRole answer issued.
C13_RoleAssumptionToggle ==
  /\ config.CORE_S3_ACCESS_ROLE_ARN = None =>
        /\ stsCalls = 0
        /\ \A j \in 1..Len(s3Requests) :
              s3Requests[j].client = Some(DefaultCredentials)
  /\ config.CORE_S3_ACCESS_ROLE_ARN # None =>
        \A j \in 1..Len(s3Requests) :
          /\ s3Requests[j].client # None
          /\ \E n \in 1..stsCalls :
                /\ s3Requests[j].client[1].accessKeyId \in {None, Some(n)}
                /\ s3Requests[j].client[1].secretAccessKey \in {None, Some(n)}
                /\ s3Requests[j].client[1].sessionToken \in {None, Some(n)}

\* The positions in s3Requests of the PutObject / GetObject commands.
PutRequests == { j \in 1..Len(s3Requests) : s3Requests[j].op = "PutObject" }
GetRequests == { j \in 1..Len(s3Requests) : s3Requests[j].op = "GetObject" }

\* A header without the 24 characters of its timestamp.
HeaderSansTimestamp(h) ==
  LET n == Len("# Processed by " \o PREFIX \o " at ") IN
  SubSeq(h, 1, n) \o SubSeq(h, n + 25, Len(h))

\* C14. Idempotent redelivery: a record whose source object was read always
\* gets its PutObject sent; S3's answer to every PutObject sent is the same
\* whether or not an object exists at the output location (an existing output
\* makes no attempt fail); and two attempts for the same key that read the
\* same source content send the same bucket, the same key, the same content,
\* the same header apart from its timestamp and the same metadata apart from
\* processedAt.
C14_IdempotentRedelivery ==
  /\ \A i \in 1..Len(event) :
        (objectsRead[i] # None) => \E j \in PutRequests : s3Requests[j].idx = i
  /\ \A j \in PutRequests :
        /\ "ok" \in PutObjectOutcomes(s3Requests[j].command, TRUE)
        /\ PutObjectOutcomes(s3Requests[j].command, TRUE)
             = PutObjectOutcomes(s3Requests[j].command, FALSE)
  /\ \A p, q \in PutRequests :
        LET a == s3Requests[p]
            b == s3Requests[q]
        IN ( /\ event[a.idx].body.key = event[b.idx].body.key
             /\ objectsRead[a.idx] = objectsRead[b.idx] ) =>
               /\ a.command.Bucket = b.command.Bucket
               /\ a.command.Key = b.command.Key
               /\ a.command.Body.content = b.command.Body.content
               /\ HeaderSansTimestamp(a.command.Body.header)
                    = HeaderSansTimestamp(b.command.Body.header)
               /\ a.command.Metadata.sourceKey = b.command.Metadata.sourceKey
               /\ a.command.Metadata.processedBy = b.command.Metadata.processedBy

\* The same key came twice, the source content was the same, both writes
\* succeeded at the same location, the second over the first, and the two
\* objects differ in the timestamp of the header only.
C14_Witness ==
  /\ pc = "returned"
  /\ Len(event) = 2
  /\ event[1].body = event[2].body
  /\ objectsRead[1] = objectsRead[2]
  /\ objectsRead[1] # None
  /\ raised = {}
  /\ \E v, w \in written :
        /\ v.idx = 1
        /\ w.idx = 2
        /\ v.Bucket = w.Bucket
        /\ v.Key = w.Key
        /\ v.content = w.content
        /\ v.header # w.header
        /\ HeaderSansTimestamp(v.header) = HeaderSansTimestamp(w.header)

\* C15. Transform: every object written for a record is the header
\* "# Processed by <PREFIX> at <timestamp>\n# Source: <key>\n\n" followed by
\* exactly the bytes read from the source object, and its metadata carries
\* sourceKey = <key> and processedBy = PREFIX, or PREFIX-<deployment> when a
\* deployment prefix is configured.
C15_Transform ==
  \A w \in written :
    LET k == event[w.idx].body.key[1] IN
    /\ Len(w.header) = Len(HeaderSansTimestamp(w.header)) + 24
    /\ HeaderSansTimestamp(w.header)
         = "# Processed by " \o PREFIX \o " at " \o "\n# Source: " \o k \o "\n\n"
    /\ w.content = objectsRead[w.idx][1]
    /\ w.Metadata.sourceKey = k
    /\ w.Metadata.processedBy =
         IF config.CDK_DEPLOYMENT_PREFIX = None
         THEN PREFIX
         ELSE PREFIX \o "-" \o config.CDK_DEPLOYMENT_PREFIX[1]

\* C16. Output key derivation: in the prefix-based processor every record
\* whose key is INPUT_PREFIX followed by <rest> and that is processed is read
\* from BUCKET_NAME at its key and written to BUCKET_NAME at OUTPUT_PREFIX
\* followed by <rest>, by one PutObject and to no other key; in the two-bucket
\* processor every record is read from the input bucket and written to the
\* output bucket, at the source key.
C16_OutputKeyDerivation ==
  /\ \A j \in GetRequests :
        /\ s3Requests[j].command.Key = event[s3Requests[j].idx].body.key[1]
        /\ s3Requests[j].command.Bucket =
             IF config.processor = "prefix" THEN BUCKET_NAME ELSE INPUT_BUCKET_NAME
  /\ \A j \in PutRequests :
        LET k == event[s3Requests[j].idx].body.key[1]
            rest == SubSeq(k, Len(INPUT_PREFIX) + 1, Len(k))
        IN /\ \A h \in PutRequests : s3Requests[h].idx = s3Requests[j].idx => h = j
           /\ IF config.processor = "prefix"
              THEN StartsWith(k, INPUT_PREFIX) =>
                     /\ s3Requests[j].command.Bucket = BUCKET_NAME
                     /\ s3Requests[j].command.Key = OUTPUT_PREFIX \o rest
              ELSE /\ s3Requests[j].command.Bucket = OUTPUT_BUCKET_NAME
                   /\ s3Requests[j].command.Key = k
  /\ \A w \in written :
        \E j \in PutRequests :
          /\ s3Requests[j].idx = w.idx
          /\ s3Requests[j].command.Bucket = w.Bucket
          /\ s3Requests[j].command.Key = w.Key

\* With the deployment prefix john, input/john/a.txt was read and its output
\* written to output/john/a.txt.
C16_Witness ==
  /\ config.CDK_DEPLOYMENT_PREFIX = Some("john")
  /\ \E j \in GetRequests :
        s3Requests[j].command = [Bucket |-> BUCKET_NAME, Key |-> "input/john/a.txt"]
  /\ \E w \in written : w.Bucket = BUCKET_NAME /\ w.Key = "output/john/a.txt"

\* Message m is in the batch of the invocation that is now over and not yet
\* settled, and the handler's response names it / does not name it.
ReportedFailed(m) ==
  /\ pc = "returned"
  /\ queue[m].status = "inflight"
  /\ \E j \in 1..Len(batchItemFailures) : batchItemFailures[j].itemIdentifier = m
NotReportedFailed(m) ==
  /\ pc = "returned"
  /\ queue[m].status = "inflight"
  /\ \A j \in 1..Len(batchItemFailures) : batchItemFailures[j].itemIdentifier # m

\* C17. Redrive to the dead-letter queue: no message is delivered to the
\* handler more than 3 times; a message is in the DLQ only after 3 deliveries
\* that all failed, and a message whose 3 deliveries all failed is not
\* delivered again and is eventually moved to the DLQ; when an invocation is
\* settled, a message the response names stays in the queue and a message of
\* the batch the response does not name is deleted; a deleted message is
\* never delivered again.
C17_RedriveToDeadLetterQueue ==
  /\ [](\A m \in QueueMessageIds :
          /\ queue[m].receiveCount <= 3
          /\ queue[m].failed <= queue[m].receiveCount
          /\ queue[m].status = "dlq" =>
                (queue[m].receiveCount = 3 /\ queue[m].failed = 3))
  /\ [][ \A m \in QueueMessageIds :
           /\ queue[m].failed = 3 =>
                 /\ queue'[m].receiveCount = queue[m].receiveCount
                 /\ queue'[m].status \in {"visible", "dlq"}
           /\ queue[m].status = "deleted" => queue'[m] = queue[m]
           /\ (NotReportedFailed(m) /\ queue'[m] # queue[m]) =>
                 queue'[m].status = "deleted"
           /\ (ReportedFailed(m) /\ queue'[m] # queue[m]) =>
                 /\ queue'[m].status = "visible"
                 /\ queue'[m].failed = queue[m].failed + 1 ]_vars
  /\ \A m \in QueueMessageIds :
        (queue[m].failed = 3) ~> (queue[m].status = "dlq")

\* The first message failed in each of its three deliveries and is in the
\* DLQ; the second was delivered with it, processed, and is deleted.
C17_Witness ==
  /\ queue["m1"].status = "dlq"
  /\ queue["m1"].failed = 3
  /\ queue["m2"].status = "deleted"
  /\ queue["m2"].receiveCount = 1
  /\ queue["m2"].failed = 0
\* ------------------------------------------------------------------------ C18
\* The conditions the validation is described by, on the props themselves.
IsEmpty(str) == str = ""
IsBlank(str) == Len(str) > 0 /\ \A i \in 1..Len(str) : SubSeq(str, i, i) \in WhiteSpace
ExactlyTwelveDigits(str) ==
  /\ Len(str) = 12
  /\ \A i \in 1..12 : \E d \in 0..9 : SubSeq(str, i, i) = ToString(d)

StackCoreInvalid ==
  \/ IsEmpty(props.prefix) \/ IsBlank(props.prefix)
  \/ ~ExactlyTwelveDigits(props.accountRpsId)
  \/ IsEmpty(props.region) \/ IsBlank(props.region)

StackRpsInvalidButBuckets ==
  \/ IsEmpty(props.prefix) \/ IsBlank(props.prefix)
  \/ ~ExactlyTwelveDigits(props.accountCoreId)
  \/ IsEmpty(props.region) \/ IsBlank(props.region)
  \/ (props.deploymentPrefix # None /\ Includes(props.deploymentPrefix[1], "/"))

\* The constructor threw, and the stack had no resource by then.
FailedBeforeAnyResource(stack) ==
  stack[1].error # None /\ stack[1].resources = {}

StackCoreValidated ==
  stackCore # None =>
    /\ StackCoreInvalid => FailedBeforeAnyResource(stackCore)
    /\ ~StackCoreInvalid => stackCore[1].error = None

\* C18 as stated: constructing StackCore or StackRps throws, with no resource
\* defined yet, exactly when the prefix is empty or blank, the peer account id
\* is not exactly 12 digits, the region is empty or blank, (StackRps) a bucket
\* name is empty, or (StackRps) the deployment prefix contains '/'.
C18_AsStated ==
  /\ StackCoreValidated
  /\ stackRps # None =>
       LET invalid == \/ StackRpsInvalidButBuckets
                      \/ IsEmpty(props.stackCoreInputBucketName)
                      \/ IsEmpty(props.stackCoreOutputBucketName)
       IN /\ invalid => FailedBeforeAnyResource(stackRps)
          /\ ~invalid => stackRps[1].error = None

\* C18, amended: constructing StackCore or StackRps throws, with no resource
\* defined yet, exactly when the prefix is empty or blank, the peer account id
\* is not exactly 12 digits, the region is empty or blank, (StackRps) a bucket
\* name is empty or blank, or (StackRps) the deployment prefix contains '/';
\* for all other props the constructor throws no validation error.
C18_StackPropValidation ==
  /\ StackCoreValidated
  /\ stackRps # None =>
       LET invalid == \/ StackRpsInvalidButBuckets
                      \/ IsEmpty(props.stackCoreInputBucketName)
                      \/ IsBlank(props.stackCoreInputBucketName)
                      \/ IsEmpty(props.stackCoreOutputBucketName)
                      \/ IsBlank(props.stackCoreOutputBucketName)
       IN /\ invalid => FailedBeforeAnyResource(stackRps)
          /\ ~invalid => stackRps[1].error = None

\* Both stacks were constructed from props whose only defect is a blank
\* output bucket name: StackCore was built, StackRps threw.
C18_Witness ==
  /\ stackCore # None /\ stackCore[1].error = None
  /\ stackRps # None /\ FailedBeforeAnyResource(stackRps)
  /\ ~StackRpsInvalidButBuckets
  /\ props.stackCoreInputBucketName = "in"
  /\ IsBlank(props.stackCoreOutputBucketName)

\* ------------------------------------------------------------------------ C19
\* Both stacks were constructed, from the same props, and neither threw.
BothStacksBuilt ==
  /\ stackCore # None /\ stackCore[1].error = None
  /\ stackRps # None /\ stackRps[1].error = None

\* The ARN StackRps builds when it is not handed one.
ConstructedS3AccessRoleArn ==
  "arn:aws:iam::" \o props.accountCoreId \o ":role/" \o props.prefix \o "-s3-access-role"

\* The names the Lambda role may have.
LambdaRoleNames ==
  {props.prefix \o "-processor-lambda-role"}
  \cup {props.prefix \o "-" \o d[1] \o "-processor-lambda-role" :
          d \in {props.deploymentPrefix} \ {None}}

\* C19: for the same prefix and account ids, the one role ARN StackRps both
\* allows the Lambda role to assume and passes as CORE_S3_ACCESS_ROLE_ARN,
\* arn:aws:iam::<core>:role/<prefix>-s3-access-role (the ARN it builds when it
\* is not handed another), is the ARN of the role StackCore creates; the Lambda
\* role is named <prefix>-processor-lambda-role or
\* <prefix>-<deployment>-processor-lambda-role; and with a dev prefix the
\* trust policy of StackCore's role accepts that Lambda role, so its
\* sts:AssumeRole of the role is permitted.
C19_RoleNamingContract ==
  BothStacksBuilt =>
    LET core == stackCore[1]
        rps == stackRps[1]
        arn == rps.environment[1].CORE_S3_ACCESS_ROLE_ARN
    IN /\ rps.role[1].AssumeCoreS3AccessRole = {arn}
       /\ rps.role[1].roleName \in LambdaRoleNames
       /\ props.coreS3AccessRoleArn = None => arn = ConstructedS3AccessRoleArn
       /\ arn = ConstructedS3AccessRoleArn =>
            /\ core.role[1].roleArn = arn
            /\ IsDev(props.prefix) => AssumeRoleAllowed(core, rps, arn)

\* The dev deployment "john" and the Core stack of the same prefix are built,
\* and the Lambda role dev-john-processor-lambda-role may assume the role.
C19_Witness ==
  /\ BothStacksBuilt
  /\ props.prefix = "dev"
  /\ props.deploymentPrefix = Some("john")
  /\ props.coreS3AccessRoleArn = None
  /\ stackRps[1].role[1].roleName = "dev-john-processor-lambda-role"
  /\ AssumeRoleAllowed(stackCore[1], stackRps[1],
                       stackRps[1].environment[1].CORE_S3_ACCESS_ROLE_ARN)

\* ------------------------------------------------------------------------ C20
\* The cache is empty.
CacheEmpty ==
  cachedCredentials = None /\ credentialsExpiration = None

\* The cache holds a bundle with its four fields, the expiry kept beside it
\* being the one of that bundle's response.
CacheComplete ==
  /\ cachedCredentials # None
  /\ credentialsExpiration # None
  /\ \A f \in CredentialFields : cachedCredentials[1][f] # None
  /\ credentialsExpiration = cachedCredentials[1].Expiration

\* C20: in every reachable state the credential cache is either empty
\* (cachedCredentials and credentialsExpiration both null) or holds a complete
\* bundle with all four fields present; cachedCredentials is set if and only
\* if credentialsExpiration is set, and both come from the same response.
C20_BundleInvariant ==
  /\ CacheEmpty \/ CacheComplete
  /\ cachedCredentials # None <=> credentialsExpiration # None

\* ------------------------------------------------------------------------ C21
\* C21: getS3ClientWithAssumedRole sends AssumeRole only in a call made while
\* the cache holds no bundle with now < expiry - 5 minutes (it is empty, lacks
\* its expiry, or now >= expiry - 5 minutes); so the call never fails while
\* such a bundle is cached: a call made then returns a client, and a call
\* that fails finds and leaves the cache without one.
C21_AcquisitionOnlyWhenNeeded ==
  [][ /\ stsCalls' # stsCalls =>
           GetCredentialsCalled /\ ~FreshBundleCached /\ stsCalls' = stsCalls + 1
      /\ (GetCredentialsCalled /\ FreshBundleCached) =>
           (pc' = "loop" /\ s3Client' # None)
      /\ (config.processor = "assumeRole" /\ pc' = "rejected" /\ pc # "rejected") =>
           (~FreshBundleCached /\ ~FreshBundleCached') ]_vars

\* The second AssumeRole answer is cached and fresh, and the invocation after
\* it was served from the cache.
C21_Witness ==
  /\ lastPath = "hit"
  /\ pc = "loop"
  /\ stsCalls = 2
  /\ FreshBundleCached
  /\ credentialsExpiration[1].rid = 2
  /\ s3Client # None

\* ------------------------------------------------------------------------ C22
\* The positions of s3Requests holding a request of kind op for record i.
RequestsFor(op, i) ==
  {k \in 1..Len(s3Requests) : s3Requests[k].op = op /\ s3Requests[k].idx = i}

\* C22: within one record the PutObject is sent only after the GetObject of
\* that record has answered and its body has been received in full, and it
\* carries that content; for a record whose read was rejected, had no Body or
\* whose body stream errored, no PutObject is sent and the record has thrown.
C22_ReadBeforeWrite ==
  /\ \A k \in 1..Len(s3Requests) :
       s3Requests[k].op = "PutObject" =>
         LET i == s3Requests[k].idx IN
         /\ \E j \in RequestsFor("GetObject", i) : j < k
         /\ objectsRead[i] # None
         /\ s3Requests[k].command.Body.content = Utf8Decode(objectsRead[i][1])
  /\ \A i \in 1..Len(event) :
       (RequestsFor("GetObject", i) # {} /\ objectsRead[i] = None /\ (pc # "read" \/ idx # i)) =>
         /\ RequestsFor("PutObject", i) = {}
         /\ i \in raised
         /\ \A w \in written : w.idx # i

\* A batch of two: the read of the first record failed and nothing was
\* written for it; the second record's content arrived and its PutObject,
\* carrying that content, has been sent.
C22_Witness ==
  /\ Len(event) = 2
  /\ RequestsFor("GetObject", 1) # {}
  /\ objectsRead[1] = None
  /\ RequestsFor("PutObject", 1) = {}
  /\ objectsRead[2] # None
  /\ objectsRead[2][1] # << >>
  /\ \E k \in RequestsFor("PutObject", 2) :
       s3Requests[k].command.Body.content = Utf8Decode(objectsRead[2][1])

\* ------------------------------------------------------------------------ C23
\* C23: within one handler invocation processRecord runs once per record and
\* sends at most one GetObject and at most one PutObject for it; a call of
\* getS3ClientWithAssumedRole that misses the cache sends exactly one
\* AssumeRole and no other step sends one; and the step in which a read, a
\* write or the role assumption fails sends nothing and moves on (to the next
\* record, or out of the handler).
C23_NoInternalRetry ==
  /\ [](\A i \in 1..Len(event) :
          /\ attempts[i] <= 1
          /\ Cardinality(RequestsFor("GetObject", i)) <= 1
          /\ Cardinality(RequestsFor("PutObject", i)) <= 1)
  /\ [][ /\ (GetCredentialsCalled /\ ~FreshBundleCached) => stsCalls' = stsCalls + 1
         /\ ~GetCredentialsCalled => stsCalls' = stsCalls
         /\ (pc = "assume" /\ pc' = "rejected") => s3Requests' = s3Requests
         /\ (pc \in {"read", "write"} /\ idx \in raised' \ raised) =>
              /\ s3Requests' = s3Requests
              /\ idx' = idx + 1
              /\ attempts' = attempts ]_vars

\* An invocation that began with a cache miss has returned: the read of its
\* first record failed, the write of its second failed, and each was sent once.
C23_Witness ==
  /\ pc = "returned"
  /\ lastPath = "miss"
  /\ stsCalls = 1
  /\ Len(event) = 2
  /\ raised = {1, 2}
  /\ objectsRead[1] = None
  /\ objectsRead[2] # None
  /\ Cardinality(RequestsFor("GetObject", 1)) = 1
  /\ Cardinality(RequestsFor("GetObject", 2)) = 1
  /\ Cardinality(RequestsFor("PutObject", 2)) = 1
  /\ Len(batchItemFailures) = 2

ProcessedBy(key) == {e.deployment : e \in {x \in processed : x.Key = key}}

\* The keys deployment d is meant to take: those under <inputPrefix>d/, or,
\* without a deployment prefix, those directly in the <inputPrefix> root.
OwnKey(d, key) ==
  IF d # None
  THEN StartsWith(key, pipeline.inputPrefix \o d[1] \o "/")
  ELSE /\ StartsWith(key, pipeline.inputPrefix)
       /\ ~Includes(SubSeq(key, Len(pipeline.inputPrefix) + 1, Len(key)), "/")

\* C25: among the deployments that share the bucket and the input prefix, one
\* without a deployment prefix and the others with pairwise different ones,
\* every object key is processed by at most one deployment: a deployment with
\* prefix d processes only keys under <inputPrefix>d/, and the one without a
\* prefix only keys directly in the <inputPrefix> root.
C25_MultiDeploymentIsolation ==
  /\ \A e \in processed : Cardinality(ProcessedBy(e.Key)) <= 1
  /\ \A e \in processed : OwnKey(e.deployment, e.Key)


\* ------------------------------------------------------------------- C26
DeployedStacks == {s \in BusStacks : rpsStacks[s] \in {"deployed", "updating"}}

\* C26: creating or updating an RPS stack never fails because the event bus
\* or the permission statement already exists; no stack operation deletes
\* the bus; every deployed stack's own permission statement is on the bus;
\* and deleting a stack removes that stack's statement and no other.
C26_SharedEventBusLifecycle ==
  /\ [](/\ \A f \in crFailures : f.error # "ResourceAlreadyExistsException"
        /\ \A s \in DeployedStacks :
             eventBus.exists /\ PermissionStatementId(s) \in eventBus.statements)
  /\ [][/\ eventBus.exists => eventBus'.exists
        /\ \A s \in BusStacks :
             rpsStacks[s] = "deployed" /\ rpsStacks'[s] = "absent" =>
               /\ eventBus'.statements =
                    eventBus.statements \ {PermissionStatementId(s)}
               /\ \A t \in DeployedStacks \ {s} :
                    PermissionStatementId(t) \in eventBus'.statements]_vars

\* One stack has been deleted, and was created again while the bus existed,
\* next to two stacks that are still deployed.
C26_Witness ==
  /\ rpsStacks[[prefix |-> "dev", deploymentPrefix |-> Some("john")]] = "creating"
  /\ eventBus.exists
  /\ Cardinality(DeployedStacks) = 2
  /\ Cardinality(eventBus.statements) = 2
  /\ crFailures = {}


\* ------------------------------------------------------------------- C27
\* C27: every GetObject and PutObject the processor sends names a bucket of
\* its configuration (INPUT_BUCKET_NAME for reads and OUTPUT_BUCKET_NAME for
\* writes of the two-bucket processor, BUCKET_NAME for the prefix-based one),
\* whatever bucket the event names; no object is written to another bucket.
C27_ConfiguredBucketOnly ==
  /\ \A i \in 1..Len(s3Requests) :
       LET r == s3Requests[i] IN
       /\ r.command.Bucket # OTHER_BUCKET_NAME
       /\ config.processor = "assumeRole" /\ r.op = "GetObject" =>
            r.command.Bucket = INPUT_BUCKET_NAME
       /\ config.processor = "assumeRole" /\ r.op = "PutObject" =>
            r.command.Bucket = OUTPUT_BUCKET_NAME
       /\ config.processor = "prefix" => r.command.Bucket = BUCKET_NAME
  /\ \A w \in written :
       w.Bucket = (IF config.processor = "assumeRole" THEN OUTPUT_BUCKET_NAME
                   ELSE BUCKET_NAME)

\* An event naming another bucket has been read and its output written.
C27_Witness ==
  /\ written # {}
  /\ \E i \in 1..Len(s3Requests) :
       /\ s3Requests[i].op = "PutObject"
       /\ event[s3Requests[i].idx].body.bucket = Some(OTHER_BUCKET_NAME)


\* ------------------------------------------------------------------- C28
\* C28: an object written by the processor is never processed again: no
\* deployment processes an event that a write of a processor raised, and the
\* output key of a processed event differs from its source key when the
\* processor reads and writes the same bucket.
C28_NoProcessingLoop ==
  \A e \in processed :
    LET cfg == HandlerConfig(pipeline, e.deployment) IN
    /\ e.by # "processor"
    /\ ReadBucket(cfg) = WriteBucket(cfg) => OutputKey(cfg, e.Key) # e.Key


\* ------------------------------------------------------------------- C29
\* The handler is between its cache hit and its return.
RunningFromCacheHit == lastPath = "hit" /\ pc \in {"loop", "read", "write"}

\* C29: throughout a handler invocation that started from a cache hit, the
\* client holds the cached credentials, their Expiration is the cached
\* expiration and lies after the current time, and every read and write of
\* the invocation was sent with that client; so each request was sent before
\* its credentials expire.
C29_CredentialsOutliveInvocation ==
  RunningFromCacheHit =>
    /\ cachedCredentials # None /\ credentialsExpiration # None
    /\ s3Client = Some(ClientCredentials(cachedCredentials[1]))
    /\ cachedCredentials[1].Expiration = credentialsExpiration
    /\ now < credentialsExpiration[1].time
    /\ \A i \in 1..Len(s3Requests) : s3Requests[i].client = s3Client

\* Time has passed during an invocation that started from a cache hit, a
\* read was made and the write is in flight.
C29_Witness ==
  /\ RunningFromCacheHit
  /\ pc = "write"
  /\ now > invokedAt
  /\ Len(s3Requests) >= 2


\* ------------------------------------------------------------------- C30
\* C30: when the app has built both stacks, the event bus the Core stack's
\* rule targets is the bus on which the RPS stack creates its rule and
\* grants the Core account events:PutEvents.
C30_EventBusNamingContract ==
  BothStacksBuilt => stackCore[1].eventBus = stackRps[1].eventBus

====
